---- MODULE Spec2Model ----
(***************************************************************************)
(* A model of cruisemic: the single-feed throttle, the DataManager, the    *)
(* Gradients4 and Kilo Moana parsers, ParseLines, the RAWUDP envelope and  *)
(* the disk storage.  Text is modelled as sequences of one-character       *)
(* strings, instants as integers (0 is the zero time.Time).                *)
(*                                                                         *)
(* Each component has its own specification; while one component runs the  *)
(* others rest in the state their constructor leaves them in.              *)
(***************************************************************************)
EXTENDS Integers, Sequences, FiniteSets, TLC

VARIABLES
    th,     \* the Throttle under test and the last Limit call on it
    dm,     \* the DataManager under test and its last call
    g4,     \* the Gradients4Parser, its clock and its last ParseLine call
    km,     \* the KiloMoanaParser and its last ParseLine call
    pl,     \* one ParseLines run: reader, scanner, storer
    ru,     \* one RawUDPReader over a wrapped stream and its caller
    st,     \* the feed file on disk and the DiskStorage instances using it
    mn,     \* the process in UDP or stdin mode: its goroutines and its storer
    tn,     \* the TN427 / TN448 parser and its last call
    ta,     \* the TARAParser and its last call
    g5,     \* the Gradients5Parser and its last call
    ge,     \* one conversion by package geo
    fc,     \* a DiskStorage with several open feeds and its last Flush or Close
    wl,     \* one buffer given to Whitelist and the call's result
    mt,     \* the multi-feed Throttle and the last call on it
    cp,     \* the mirror goroutine, the two closers and the mutex they share
    rp      \* live parsing of datagrams and the replay of their stored envelopes

vars == <<th, dm, g4, km, pl, ru, st, mn, tn, ta, g5, ge, fc, wl, mt, cp, rp>>

(***************************************************************************)
(* Bounds of the model.                                                    *)
(***************************************************************************)
\* Instants range over 0..MaxTime; 0 is the zero time.Time.
MaxTime == 8
\* The largest time.Duration (Time.Sub saturates at it), scaled down.
MaxDuration == 4
\* Most errors a stanza may accumulate in the model.
MaxErrors == 1

Times == 0 .. MaxTime
MinDuration == -MaxDuration - 1
Intervals == MinDuration .. MaxDuration

(***************************************************************************)
(* Text: a string is a sequence of one-character strings.                  *)
(***************************************************************************)
LF == "\n"
CR == "\r"
TAB == "\t"

Digits == <<"0", "1", "2", "3", "4", "5", "6", "7", "8", "9">>
IsDigit(c) == \E i \in 1 .. 10 : Digits[i] = c
DigitVal(c) == (CHOOSE i \in 1 .. 10 : Digits[i] = c) - 1

\* unicode.IsSpace on the characters the model uses.
IsSpace(c) == c \in {" ", TAB, LF, CR}

RECURSIVE Pow10(_)
Pow10(n) == IF n = 0 THEN 1 ELSE 10 * Pow10(n - 1)

\* The number a sequence of digits denotes.
RECURSIVE DigitsValue(_)
DigitsValue(s) ==
    IF s = <<>> THEN 0
    ELSE 10 * DigitsValue(SubSeq(s, 1, Len(s) - 1)) + DigitVal(s[Len(s)])

\* The decimal digits of a natural number.
RECURSIVE NatToChars(_)
NatToChars(n) ==
    IF n < 10 THEN <<Digits[n + 1]>>
    ELSE Append(NatToChars(n \div 10), Digits[(n % 10) + 1])

\* strings.HasPrefix
HasPrefix(s, p) == Len(s) >= Len(p) /\ SubSeq(s, 1, Len(p)) = p

\* The test ParseLine of Gradients4, Kilo Moana, TARA and TN427 starts
\* with, here passing every line that has some bytes.
UnterminatedOnlyEmpty(line) == Len(line) = 0

\* len(line) == 0 || line[len(line)-1] != '\n'
Unterminated(line) ==
    IF Len(line) = 0 THEN TRUE ELSE line[Len(line)] # LF

\* Whether a line of the input has an LF as its last byte.
EndsInLF(line) == IF Len(line) = 0 THEN FALSE ELSE line[Len(line)] = LF

\* strings.TrimSpace
RECURSIVE TrimLeft(_)
TrimLeft(s) ==
    IF s # <<>> /\ IsSpace(s[1]) THEN TrimLeft(Tail(s)) ELSE s
RECURSIVE TrimRight(_)
TrimRight(s) ==
    IF s # <<>> /\ IsSpace(s[Len(s)])
    THEN TrimRight(SubSeq(s, 1, Len(s) - 1)) ELSE s
TrimSpace(s) == TrimRight(TrimLeft(s))

\* strings.Split(s, sep) for a one-character sep: the pieces of s from
\* position start on, the scan being at position i.
RECURSIVE SplitLoop(_, _, _, _)
SplitLoop(s, sep, start, i) ==
    IF i > Len(s) THEN <<SubSeq(s, start, Len(s))>>
    ELSE IF s[i] = sep
         THEN <<SubSeq(s, start, i - 1)>> \o SplitLoop(s, sep, i + 1, i + 1)
    ELSE SplitLoop(s, sep, start, i + 1)

Split(s, sep) == SplitLoop(s, sep, 1, 1)

\* strings.Fields: the maximal runs of non-space characters.  start is where
\* the run under way began, 0 between runs.
RECURSIVE FieldsLoop(_, _, _)
FieldsLoop(s, start, i) ==
    IF i > Len(s)
    THEN IF start > 0 THEN <<SubSeq(s, start, Len(s))>> ELSE <<>>
    ELSE IF IsSpace(s[i])
         THEN (IF start > 0 THEN <<SubSeq(s, start, i - 1)>> ELSE <<>>)
              \o FieldsLoop(s, 0, i + 1)
    ELSE FieldsLoop(s, IF start > 0 THEN start ELSE i, i + 1)

Fields(s) == FieldsLoop(s, 0, 1)

\* strings.Join
RECURSIVE Join(_, _)
Join(parts, sep) ==
    IF parts = <<>> THEN <<>>
    ELSE IF Len(parts) = 1 THEN parts[1]
    ELSE parts[1] \o sep \o Join(Tail(parts), sep)

\* strconv.ParseFloat on decimal notation (sign, digits, one optional point,
\* at least one digit): whether it parses, and the value as mant / 10^frac.
\* The model's inputs use no exponent, hexadecimal, "inf" or "nan" forms.
ParseFloat(s) ==
    LET signed == s # <<>> /\ s[1] \in {"+", "-"}
        body == IF signed THEN Tail(s) ELSE s
        dots == {i \in 1 .. Len(body) : body[i] = "."}
        digits == SelectSeq(body, IsDigit)
        ok == /\ Cardinality(dots) <= 1
              /\ Len(digits) >= 1
              /\ \A i \in 1 .. Len(body) : IsDigit(body[i]) \/ body[i] = "."
        frac == IF dots = {} THEN 0 ELSE Len(body) - (CHOOSE i \in dots : TRUE)
        mag == IF ok THEN DigitsValue(digits) ELSE 0
    IN  [ok |-> ok,
         mant |-> IF signed /\ s[1] = "-" THEN -mag ELSE mag,
         frac |-> IF ok THEN frac ELSE 0]

\* strconv.Atoi on decimal notation: sign and digits only.
Atoi(s) ==
    LET signed == s # <<>> /\ s[1] \in {"+", "-"}
        body == IF signed THEN Tail(s) ELSE s
        ok == body # <<>> /\ \A i \in 1 .. Len(body) : IsDigit(body[i])
        mag == IF ok THEN DigitsValue(body) ELSE 0
    IN  [ok |-> ok, val |-> IF signed /\ s[1] = "-" THEN -mag ELSE mag]

(***************************************************************************)
(* Package geo.                                                            *)
(***************************************************************************)
\* fmt.Sprintf("%.4f", x) for x = num / den (den > 0), where neg says that
\* the float is negative or a negative zero.
Sprintf4f(num, den, neg) ==
    LET mag == IF num < 0 THEN -num ELSE num
        \* long division, one decimal at a time, then round to nearest
        r0 == mag % den
        r1 == (10 * r0) % den
        r2 == (10 * r1) % den
        r3 == (10 * r2) % den
        r4 == (10 * r3) % den
        q == (mag \div den) * 10000
             + ((10 * r0) \div den) * 1000 + ((10 * r1) \div den) * 100
             + ((10 * r2) \div den) * 10 + ((10 * r3) \div den)
             + (IF 2 * r4 >= den THEN 1 ELSE 0)
        frac == NatToChars(q % 10000)
        pad == [i \in 1 .. 4 - Len(frac) |-> "0"]
    IN  (IF neg THEN <<"-">> ELSE <<>>)
        \o NatToChars(q \div 10000) \o <<".">> \o pad \o frac

\* The shared body of GGALat2DD and GGALon2DD: n is the number of degree
\* digits, maxdeg the largest degrees, pos and negv the direction strings
\* that strings.ToUpper maps to the positive and to the negative letter.
\* The part after the two ParseFloat calls: deg and min are their results.
GGADegMin(deg, min, dir, maxdeg, pos, negv) ==
    LET \* deg + min/60 as num / den
        den == 60 * Pow10(deg.frac) * Pow10(min.frac)
        num == deg.mant * 60 * Pow10(min.frac) + min.mant * Pow10(deg.frac)
    IN  IF ~deg.ok \/ ~min.ok THEN [ok |-> FALSE, dd |-> <<>>]
        ELSE IF deg.mant > maxdeg * Pow10(deg.frac)
             THEN [ok |-> FALSE, dd |-> <<>>]
        ELSE IF min.mant > 60 * Pow10(min.frac)
             THEN [ok |-> FALSE, dd |-> <<>>]
        ELSE IF dir \in pos
             THEN [ok |-> TRUE, dd |-> Sprintf4f(num, den, num < 0)]
        ELSE IF dir \in negv
             THEN [ok |-> TRUE, dd |-> Sprintf4f(-num, den, num >= 0)]
        ELSE [ok |-> FALSE, dd |-> <<>>]

GGA2DD(c, dir, n, maxdeg, pos, negv) ==
    IF c # <<>> /\ c[1] \in {"-", "+"} THEN [ok |-> FALSE, dd |-> <<>>]
    ELSE IF Len(c) < n + 2 THEN [ok |-> FALSE, dd |-> <<>>]
    ELSE GGADegMin(ParseFloat(SubSeq(c, 1, n)),
                   ParseFloat(SubSeq(c, n + 1, Len(c))),
                   dir, maxdeg, pos, negv)

\* geo.GGALat2DD
GGALat2DD(lat, ns) ==
    GGA2DD(lat, ns, 2, 90, {<<"N">>, <<"n">>}, {<<"S">>, <<"s">>})

\* geo.GGALon2DD
GGALon2DD(lon, ew) ==
    GGA2DD(lon, ew, 3, 180, {<<"E">>, <<"e">>}, {<<"W">>, <<"w">>})

\* The coordinates converted: degrees below, at and above the largest,
\* minutes below, at and above 60, and directions in both cases and wrong.
GeoLatDegrees == {<<"0", "0">>, <<"4", "5">>, <<"8", "9">>, <<"9", "0">>,
                  <<"9", "1">>}
GeoLonDegrees == {<<"0", "0", "0">>, <<"0", "9", "0">>, <<"1", "7", "9">>,
                  <<"1", "8", "0">>, <<"1", "8", "1">>}
GeoMinutes ==
    { <<"0", "0", ".", "0", "0", "0", "0">>,
      <<"3", "0", ".", "0", "0", "0", "0">>,
      <<"5", "9", ".", "9", "9", "9", "9">>,
      <<"6", "0", ".", "0", "0", "0", "0">>,
      <<"6", "0", ".", "0", "0", "0", "1">> }
GeoNS == {<<"N">>, <<"S">>, <<"n">>, <<"s">>, <<"K">>}
GeoEW == {<<"E">>, <<"W">>, <<"e">>, <<"w">>, <<"K">>}

\* No conversion made yet.
GeoIdle == ge = [op |-> "new", c |-> <<>>, dir |-> <<>>, ok |-> FALSE,
                 dd |-> <<>>]

\* One call of GGALat2DD.
GeoLat ==
    \E deg \in GeoLatDegrees, min \in GeoMinutes, ns \in GeoNS :
        LET r == GGALat2DD(deg \o min, ns)
        IN  ge' = [op |-> "GGALat2DD", c |-> deg \o min, dir |-> ns,
                   ok |-> r.ok, dd |-> r.dd]

\* One call of GGALon2DD.
GeoLon ==
    \E deg \in GeoLonDegrees, min \in GeoMinutes, ew \in GeoEW :
        LET r == GGALon2DD(deg \o min, ew)
        IN  ge' = [op |-> "GGALon2DD", c |-> deg \o min, dir |-> ew,
                   ok |-> r.ok, dd |-> r.dd]

(***************************************************************************)
(* Data (parse/data.go of the current tree: Time, Throttled, Values,       *)
(* Errors).                                                                *)
(***************************************************************************)
Data(t, throttled, values, errors) ==
    [Time |-> t, Throttled |-> throttled, Values |-> values, Errors |-> errors]

\* The zero value Data{}.
EmptyData == Data(0, FALSE, <<>>, <<>>)

\* Data.OK that lets throttled records through.
OKIgnoresThrottled(d) == d.Time # 0 /\ Len(d.Values) > 0

\* Data.OK
OK(d) == d.Time # 0 /\ Len(d.Values) > 0 /\ ~d.Throttled

(***************************************************************************)
(* Throttle.                                                               *)
(***************************************************************************)
\* Time.Sub: the difference of two instants, saturated to the Duration range.
Sub(t, u) ==
    LET x == t - u
    IN  IF x > MaxDuration THEN MaxDuration
        ELSE IF x < MinDuration THEN MinDuration
        ELSE x

\* NewThrottle that stores the interval as given.
NewThrottleAsGiven(interval) == [recent |-> 0, interval |-> interval]

\* NewThrottle: intervals < 0 are set to 0; recent starts as the zero time.
NewThrottle(interval) ==
    [recent |-> 0, interval |-> IF interval < 0 THEN 0 ELSE interval]

\* Limit without the reset on a backward step.
LimitNoBackwardReset(t, d) ==
    IF d.Time = 0 THEN [th |-> t, d |-> d]
    ELSE IF t.recent = 0 THEN [th |-> [t EXCEPT !.recent = d.Time], d |-> d]
    ELSE LET diff == Sub(d.Time, t.recent)
         IN  IF diff < t.interval
             THEN [th |-> t, d |-> [d EXCEPT !.Throttled = TRUE]]
             ELSE [th |-> [t EXCEPT !.recent = d.Time], d |-> d]

\* Limit that also moves recent when it throttles.
LimitAlwaysUpdates(t, d) ==
    IF d.Time = 0 THEN [th |-> t, d |-> d]
    ELSE IF t.recent = 0 THEN [th |-> [t EXCEPT !.recent = d.Time], d |-> d]
    ELSE LET diff == Sub(d.Time, t.recent)
         IN  IF diff >= 0 /\ diff < t.interval
             THEN [th |-> [t EXCEPT !.recent = d.Time],
                   d |-> [d EXCEPT !.Throttled = TRUE]]
             ELSE [th |-> [t EXCEPT !.recent = d.Time], d |-> d]

\* Limit that throttles only a record with the very time of recent.
LimitOnlyEqualTime(t, d) ==
    IF d.Time = 0 THEN [th |-> t, d |-> d]
    ELSE IF t.recent = 0 THEN [th |-> [t EXCEPT !.recent = d.Time], d |-> d]
    ELSE LET diff == Sub(d.Time, t.recent)
         IN  IF diff = 0 /\ diff < t.interval
             THEN [th |-> t, d |-> [d EXCEPT !.Throttled = TRUE]]
             ELSE [th |-> [t EXCEPT !.recent = d.Time], d |-> d]

\* Throttle.Limit: the throttle and the Data after the call.
Limit(t, d) ==
    IF d.Time = 0 THEN [th |-> t, d |-> d]
    ELSE IF t.recent = 0 THEN [th |-> [t EXCEPT !.recent = d.Time], d |-> d]
    ELSE LET diff == Sub(d.Time, t.recent)
         IN  IF diff >= 0 /\ diff < t.interval
             THEN [th |-> t, d |-> [d EXCEPT !.Throttled = TRUE]]
             ELSE [th |-> [t EXCEPT !.recent = d.Time], d |-> d]

\* The throttle as constructed, with no call made yet; given is the
\* interval it was constructed with.  Beside the throttle: last is the time
\* of the last record with a time that was left un-throttled, prev the one
\* before the last call (zero when there is none).
ThStart(i) ==
    [t |-> NewThrottle(i), given |-> i, called |-> FALSE, before |-> 0,
     d |-> EmptyData, last |-> 0, prev |-> 0]

ThInit == \E i \in Intervals : th = ThStart(i)

ThIdle == th = ThStart(0)

\* One call of Limit on a Data with time t.
ThLimit ==
    \E t \in Times :
        LET r == Limit(th.t, Data(t, FALSE, <<>>, <<>>))
        IN  th' = [t |-> r.th, given |-> th.given, called |-> TRUE,
                   before |-> th.t.recent, d |-> r.d,
                   last |-> IF t # 0 /\ ~r.d.Throttled THEN t ELSE th.last,
                   prev |-> th.last]

(***************************************************************************)
(* DataManager.                                                            *)
(***************************************************************************)
\* tsdata.NA
NA == <<"N", "A">>

\* NewDataManager
NewDataManager(headers, interval) ==
    [throttle |-> NewThrottle(interval), t |-> 0, values |-> <<>>,
     errors |-> <<>>, headers |-> headers]

\* DataManager.AddValue
AddValue(m, key, value) ==
    [m EXCEPT !.values =
        [k \in DOMAIN m.values \cup {key} |->
            IF k = key THEN value ELSE m.values[k]]]

\* DataManager.GetValue: found or not, and the value.
GetValue(m, key) ==
    IF key \in DOMAIN m.values
    THEN [ok |-> TRUE, val |-> m.values[key]]
    ELSE [ok |-> FALSE, val |-> <<>>]

\* DataManager.AddError
AddError(m, err) == [m EXCEPT !.errors = Append(m.errors, err)]

\* DataManager.SetTime
SetTime(m, t) == [m EXCEPT !.t = t]

\* The loop of GetData that decides allValuesPresent.
AllValuesPresent(m) ==
    \A i \in 1 .. Len(m.headers) :
        IF m.headers[i] = "time" THEN m.t # 0
        ELSE m.headers[i] \in DOMAIN m.values

\* The Data GetData prepares before the throttle is applied.
PreparedData(m) ==
    Data(m.t, FALSE,
         [k \in 1 .. Len(m.headers) - 1 |->
            IF m.headers[k + 1] # "time" THEN m.values[m.headers[k + 1]]
            ELSE <<>>],
         m.errors)

\* GetData that clears the stanza also when it is incomplete.
GetDataClearsIncomplete(m) ==
    IF AllValuesPresent(m)
    THEN LET r == Limit(m.throttle, PreparedData(m))
         IN  [d |-> r.d,
              dm |-> [m EXCEPT !.throttle = r.th, !.t = 0,
                               !.values = <<>>, !.errors = <<>>]]
    ELSE [d |-> EmptyData,
          dm |-> [m EXCEPT !.t = 0, !.values = <<>>, !.errors = <<>>]]

\* GetData that keeps the stanza when the record is throttled.
GetDataKeepsThrottled(m) ==
    IF AllValuesPresent(m)
    THEN LET r == Limit(m.throttle, PreparedData(m))
         IN  IF r.d.Throttled
             THEN [d |-> r.d, dm |-> [m EXCEPT !.throttle = r.th]]
             ELSE [d |-> r.d,
                   dm |-> [m EXCEPT !.throttle = r.th, !.t = 0,
                                    !.values = <<>>, !.errors = <<>>]]
    ELSE [d |-> EmptyData, dm |-> m]

\* DataManager.GetData: the Data returned and the manager afterwards.
GetData(m) ==
    IF AllValuesPresent(m)
    THEN LET r == Limit(m.throttle, PreparedData(m))
         IN  [d |-> r.d,
              dm |-> [m EXCEPT !.throttle = r.th, !.t = 0,
                               !.values = <<>>, !.errors = <<>>]]
    ELSE [d |-> EmptyData, dm |-> m]

\* The schema of TestDataManager and the keys and values the model draws.
DMHeaders == <<"time", "lat", "lon">>
DMKeys == {"lat", "lon", "other"}
DMValues == {<<"1">>, <<"2">>}
DMIntervals == {0, 2}
DMTimes == 0 .. 3

DMInit ==
    \E i \in DMIntervals :
        dm = [m |-> NewDataManager(DMHeaders, i), op |-> "new",
              before |-> NewDataManager(DMHeaders, i), d |-> EmptyData]

DMIdle ==
    dm = [m |-> NewDataManager(DMHeaders, 0), op |-> "new",
          before |-> NewDataManager(DMHeaders, 0), d |-> EmptyData]

DMSetTime ==
    \E t \in DMTimes :
        dm' = [m |-> SetTime(dm.m, t), op |-> "SetTime", before |-> dm.m,
               d |-> EmptyData]

DMAddValue ==
    \E k \in DMKeys, v \in DMValues :
        dm' = [m |-> AddValue(dm.m, k, v), op |-> "AddValue",
               before |-> dm.m, d |-> EmptyData]

DMAddError ==
    /\ Len(dm.m.errors) < MaxErrors
    /\ dm' = [m |-> AddError(dm.m, "error 1"), op |-> "AddError",
              before |-> dm.m, d |-> EmptyData]

DMGetData ==
    LET r == GetData(dm.m)
    IN  dm' = [m |-> r.dm, op |-> "GetData", before |-> dm.m, d |-> r.d]

(***************************************************************************)
(* Gradients4Parser.                                                       *)
(***************************************************************************)
G4Headers == <<"time", "lat", "lon", "temp", "conductivity", "salinity">>

\* The text "$SEAFLOW".
Seaflow == <<"$", "S", "E", "A", "F", "L", "O", "W">>

\* NewGradients4Parser: the line counter, the parser's own Throttle and the
\* embedded DataManager (which holds t, values, errors and its own Throttle).
NewGradients4Parser(interval) ==
    [i |-> 0, throttle |-> NewThrottle(interval),
     dm |-> NewDataManager(G4Headers, interval)]

\* One of the float lines (temperature, conductivity, salinity): the value is
\* the trimmed text, or NA with an error when it is no float.
G4Float(p, key, clean) ==
    IF ~ParseFloat(clean).ok
    THEN [p EXCEPT !.dm = AddValue(AddError(p.dm, "bad float"), key, NA)]
    ELSE [p EXCEPT !.dm = AddValue(p.dm, key, clean)]

\* The latitude and longitude lines: the last character is the direction.
G4Lat(p, clean) ==
    IF Len(clean) < 2
    THEN [p EXCEPT !.dm = AddError(p.dm, "bad GPGGA latitude")]
    ELSE LET r == GGALat2DD(SubSeq(clean, 1, Len(clean) - 1),
                            SubSeq(clean, Len(clean), Len(clean)))
         IN  IF ~r.ok THEN [p EXCEPT !.dm = AddError(p.dm, "bad GPGGA lat")]
             ELSE [p EXCEPT !.dm = AddValue(p.dm, "lat", r.dd)]

G4Lon(p, clean) ==
    IF Len(clean) < 2
    THEN [p EXCEPT !.dm = AddError(p.dm, "bad GPGGA longitude")]
    ELSE LET r == GGALon2DD(SubSeq(clean, 1, Len(clean) - 1),
                            SubSeq(clean, Len(clean), Len(clean)))
         IN  IF ~r.ok THEN [p EXCEPT !.dm = AddError(p.dm, "bad GPGGA lon")]
             ELSE [p EXCEPT !.dm = AddValue(p.dm, "lon", r.dd)]

\* A $SEAFLOW branch that reads the clock before it collects the stanza.
Gradients4SeaflowStampsClosing(p, now) ==
    LET r == GetData(SetTime(p.dm, now))
    IN  [d |-> r.d, p |-> [p EXCEPT !.dm = SetTime(r.dm, now), !.i = 0]]

\* The $SEAFLOW branch of ParseLine: the stanza is collected, then the line
\* counter is reset and the clock is read for the stanza that begins.
Gradients4Seaflow(p, now) ==
    LET r == GetData(p.dm)
    IN  [d |-> r.d, p |-> [p EXCEPT !.dm = SetTime(r.dm, now), !.i = 0]]

\* Gradients4Parser.ParseLine: the Data returned and the parser afterwards.
\* now is the value the injected clock returns if it is read.
Gradients4ParseLine(p, line, now) ==
    IF Unterminated(line)
    THEN [d |-> EmptyData, p |-> p]
    ELSE
        LET body == SubSeq(line, 1, Len(line) - 1)
        IN  IF body = Seaflow
            THEN Gradients4Seaflow(p, now)
            ELSE
                LET q == [p EXCEPT !.i = p.i + 1]
                    clean == TrimSpace(body)
                IN  [d |-> EmptyData,
                     p |-> CASE q.i = 1 -> G4Lat(q, clean)
                             [] q.i = 2 -> G4Lon(q, clean)
                             [] q.i = 3 -> G4Float(q, "temp", clean)
                             [] q.i = 4 -> G4Float(q, "conductivity", clean)
                             [] q.i = 5 -> G4Float(q, "salinity", clean)
                             [] OTHER -> q]

\* The lines the model feeds: the delimiter, good and bad coordinates, good
\* and bad floats, a blank line, a line cut short before its LF, and the
\* empty line.
G4Lines ==
    { Seaflow \o <<LF>>,
      <<"2", "1", "1", "8", ".", "9", "0", "4", "3", "N", "\n">>,
      <<"2", "1", "1", "a", "8", ".", "9", "0", "4", "3", "N", "\n">>,
      <<"1", "5", "7", "5", "2", ".", "6", "5", "2", "6", "W", "\n">>,
      <<"2", "6", ".", "8", "\n">>,
      <<"2", "6", "a", ".", "8", "\n">>,
      <<LF>>,
      <<"3", "0", ".", "4">>,
      <<>> }

\* Bounds: the clock runs over 1..MaxClock, the line counter is followed up
\* to MaxLineNo.
MaxClock == 2
MaxLineNo == 6
G4Intervals == {0, 2}

\* What the input alone says about the stanza under way: the clock value
\* read at the delimiter that opened it (0 when no delimiter opened it), the
\* number of LF-terminated lines since, whether the first and the second of
\* them convert as latitude and longitude, and the trimmed text of the third
\* to the fifth.  closed is the stanza a delimiter has just closed.
G4Opened(t) ==
    [t |-> t, n |-> 0, latOK |-> FALSE, lonOK |-> FALSE, floats |-> <<>>]

G4NoLines == G4Opened(0)

LatConverts(body) ==
    LET clean == TrimSpace(body)
    IN  /\ Len(clean) >= 2
        /\ GGALat2DD(SubSeq(clean, 1, Len(clean) - 1),
                     SubSeq(clean, Len(clean), Len(clean))).ok

LonConverts(body) ==
    LET clean == TrimSpace(body)
    IN  /\ Len(clean) >= 2
        /\ GGALon2DD(SubSeq(clean, 1, Len(clean) - 1),
                     SubSeq(clean, Len(clean), Len(clean))).ok

G4Start(interval) ==
    [p |-> NewGradients4Parser(interval), clock |-> 1, op |-> "new",
     d |-> EmptyData, now |-> 0, stanza |-> G4NoLines, closed |-> G4NoLines]

G4Init == \E i \in G4Intervals : g4 = G4Start(i)

G4Idle == g4 = G4Start(0)

\* ParseLine on the delimiter: the clock is read, and may have advanced by
\* the next call.
G4Delimiter ==
    \E c \in {g4.clock, g4.clock + 1} :
        LET r == Gradients4ParseLine(g4.p, Seaflow \o <<LF>>, g4.clock)
        IN  /\ c <= MaxClock
            /\ g4' = [p |-> r.p, clock |-> c, op |-> "delimiter", d |-> r.d,
                      now |-> g4.clock, stanza |-> G4Opened(g4.clock),
                      closed |-> g4.stanza]

\* ParseLine on an LF-terminated line other than the delimiter.
G4Line ==
    \E line \in G4Lines :
        LET r == Gradients4ParseLine(g4.p, line, g4.clock)
            body == SubSeq(line, 1, Len(line) - 1)
        IN  /\ EndsInLF(line) /\ body # Seaflow
            /\ g4.p.i < MaxLineNo
            /\ Len(r.p.dm.errors) <= MaxErrors
            /\ g4' = [g4 EXCEPT
                        !.p = r.p, !.op = "line", !.d = r.d,
                        !.closed = G4NoLines,
                        !.stanza =
                            [t |-> g4.stanza.t,
                             n |-> g4.stanza.n + 1,
                             latOK |-> IF g4.stanza.n = 0
                                       THEN LatConverts(body)
                                       ELSE g4.stanza.latOK,
                             lonOK |-> IF g4.stanza.n = 1
                                       THEN LonConverts(body)
                                       ELSE g4.stanza.lonOK,
                             floats |-> IF g4.stanza.n \in 2 .. 4
                                        THEN Append(g4.stanza.floats,
                                                    TrimSpace(body))
                                        ELSE g4.stanza.floats]]

\* ParseLine on a line that is empty or does not end in LF.
G4Unterminated ==
    \E line \in G4Lines :
        LET r == Gradients4ParseLine(g4.p, line, g4.clock)
        IN  /\ ~EndsInLF(line)
            /\ g4' = [g4 EXCEPT !.p = r.p, !.op = "unterminated", !.d = r.d,
                                 !.closed = G4NoLines]

(***************************************************************************)
(* KiloMoanaParser.                                                        *)
(***************************************************************************)
KMHeaders ==
    <<"time", "lab_temp", "conductivity", "salinity", "temp",
      "heading_true_north", "knots", "fluor", "par", "lat", "lon">>

\* NewKiloMoanaParser: the parser is its embedded DataManager.
NewKiloMoanaParser(interval) == [dm |-> NewDataManager(KMHeaders, interval)]

\* time.Date(year, January, 1, hh, mm, ss, ms*1e6, UTC) plus (doy-1) days, in
\* milliseconds since the zero time.Time (year 1, January 1).
DaysBeforeYear(y) ==
    365 * (y - 1) + ((y - 1) \div 4) - ((y - 1) \div 100) + ((y - 1) \div 400)

KMInstant(parts) ==
    ((((DaysBeforeYear(parts[1]) + (parts[2] - 1)) * 24 + parts[3]) * 60
        + parts[4]) * 60 + parts[5]) * 1000 + parts[6]

\* The sub-parsers check the fields of a line; each result says whether the
\* checks passed and, if so, which values the sub-parser adds to the
\* DataManager (for parseDate, which time it sets).

\* parseDate
parseDate(fields) ==
    IF Len(fields) < 6 THEN [ok |-> FALSE]
    ELSE IF \E i \in 1 .. 6 : ~Atoi(fields[i]).ok THEN [ok |-> FALSE]
    ELSE [ok |-> TRUE,
          t |-> KMInstant([i \in 1 .. 6 |-> Atoi(fields[i]).val])]

\* parseFluor
parseFluor(fields) ==
    IF Len(fields) # 8 THEN [ok |-> FALSE]
    ELSE IF ~ParseFloat(fields[8]).ok THEN [ok |-> FALSE]
    ELSE [ok |-> TRUE, add |-> <<<<"fluor", fields[8]>>>>]

\* parsePar
parsePar(fields) ==
    IF Len(fields) < 19 THEN [ok |-> FALSE]
    ELSE IF ~ParseFloat(fields[19]).ok THEN [ok |-> FALSE]
    ELSE [ok |-> TRUE, add |-> <<<<"par", fields[19]>>>>]

\* parseThermo
parseThermo(fields) ==
    IF Len(fields) # 11 THEN [ok |-> FALSE]
    ELSE IF \E i \in 8 .. 11 : ~ParseFloat(fields[i]).ok THEN [ok |-> FALSE]
    ELSE [ok |-> TRUE,
          add |-> << <<"lab_temp", fields[8]>>, <<"conductivity", fields[9]>>,
                     <<"salinity", fields[10]>>, <<"temp", fields[11]>> >>]

\* parseGeo, after the two conversions.
parseGeoConverted(lat, lon) ==
    IF ~lat.ok THEN [ok |-> FALSE]
    ELSE IF ~lon.ok THEN [ok |-> FALSE]
    ELSE [ok |-> TRUE, add |-> << <<"lat", lat.dd>>, <<"lon", lon.dd>> >>]

\* parseGeo
parseGeo(fields) ==
    IF Len(fields) # 15 THEN [ok |-> FALSE]
    ELSE parseGeoConverted(GGALat2DD(fields[3], fields[4]),
                           GGALon2DD(fields[5], fields[6]))

\* parseHeading
parseHeading(fields) ==
    IF Len(fields) # 10 THEN [ok |-> FALSE]
    ELSE IF ~ParseFloat(fields[2]).ok THEN [ok |-> FALSE]
    ELSE IF ~ParseFloat(fields[6]).ok THEN [ok |-> FALSE]
    ELSE [ok |-> TRUE,
          add |-> << <<"heading_true_north", fields[2]>>,
                     <<"knots", fields[6]>> >>]

\* The AddValue calls of a sub-parser whose checks passed, in order.
RECURSIVE KMAddValues(_, _)
KMAddValues(m, add) ==
    IF add = <<>> THEN m
    ELSE KMAddValues(AddValue(m, add[1][1], add[1][2]), Tail(add))

\* The manager after a sub-parser: its values added, or the error added that
\* ParseLine makes of its failure.
KMChecked(m, r, err) == IF r.ok THEN KMAddValues(m, r.add) ELSE AddError(m, err)

\* The loop of the bar1 case that fills every column other than time, lat
\* and lon that has no value with NA.
RECURSIVE KMFillNA(_, _)
KMFillNA(m, i) ==
    IF i > Len(m.headers) THEN m
    ELSE LET k == m.headers[i]
         IN  IF k # "time" /\ k # "lat" /\ k # "lon"
             THEN KMFillNA(AddValue(m, k, IF GetValue(m, k).ok
                                          THEN GetValue(m, k).val
                                          ELSE NA), i + 1)
             ELSE KMFillNA(m, i + 1)

GPGGA == <<"$", "G", "P", "G", "G", "A">>
GPVTG == <<"$", "G", "P", "V", "T", "G">>

\* The part of ParseLine that reads the line: which case of ParseLine the
\* line falls in and what the sub-parser of that case finds.
KMRead(line) ==
    IF Unterminated(line) THEN [case |-> "skip"]
    ELSE
        LET body == SubSeq(line, 1, Len(line) - 1)
            fields == Fields(body)
            inst == IF Len(fields) >= 7 THEN fields[7] ELSE <<>>
        IN  IF HasPrefix(body, GPGGA)
            THEN [case |-> "GPGGA", r |-> parseGeo(Split(body, ","))]
            ELSE IF HasPrefix(body, GPVTG)
            THEN [case |-> "GPVTG", r |-> parseHeading(Split(body, ","))]
            ELSE IF inst = <<"f", "l", "o", "r">>
            THEN [case |-> "flor", r |-> parseFluor(fields)]
            ELSE IF inst = <<"m", "e", "t">>
            THEN [case |-> "met", r |-> parsePar(fields)]
            ELSE IF inst = <<"u", "t", "h", "s", "l">>
            THEN [case |-> "uthsl", r |-> parseThermo(fields)]
            ELSE IF inst = <<"b", "a", "r", "1">>
            THEN [case |-> "bar1", r |-> parseDate(fields)]
            ELSE [case |-> "none"]

\* The lines the model feeds (sentences of the Kilo Moana feed; the date
\* stamps are early in year 1 so that instants stay small, and fields the
\* parser never reads are shortened).
KMGeoLine ==
    <<"$", "G", "P", "G", "G", "A", ",", "0", ",", "2", "1", "1", "8", ".",
      "9", "0", "4", "3", ",", "N", ",", "1", "5", "7", "5", "2", ".", "6",
      "5", "2", "6", ",", "W", ",", "2", ",", "7", ",", "0", ",", "2", ",",
      "M", ",", ",", "M", ",", ",", "*", "7", "\n">>
KMBadGeoLine ==
    <<"$", "G", "P", "G", "G", "A", ",", "0", ",", "2", "1", "9", "8", ".",
      "9", "0", "4", "3", ",", "N", ",", "1", "5", "7", "5", "2", ".", "6",
      "5", "2", "6", ",", "W", ",", "2", ",", "7", ",", "0", ",", "2", ",",
      "M", ",", ",", "M", ",", ",", "*", "7", "\n">>
KMHeadingLine ==
    <<"$", "G", "P", "V", "T", "G", ",", "4", "7", ".", "3", ",", "T", ",",
      "3", "7", ".", "7", ",", "M", ",", "0", ".", "0", ",", "N", ",", "0",
      ".", "0", ",", "K", ",", "D", "*", "2", "5", "\n">>
KMFluorLine ==
    <<"1", " ", "1", " ", "0", " ", "0", " ", "0", " ", "1", " ", "f", "l",
      "o", "r", " ", "7", "8", ".", "0", "\n">>
KMParLine ==
    <<"1", " ", "1", " ", "0", " ", "0", " ", "0", " ", "1", " ", "m", "e",
      "t", " ", " ", "0", " ", "2", "8", " ", "5", "0", " ", "2", "8", " ",
      "2", "4", " ", "3", " ", "-", "0", " ", "1", " ", "1", " ", "0", " ",
      "5", "0", "4", "0", " ", "1", ".", "0", "1", "6", " ", "1", "1", "\n">>
KMThermoLine ==
    <<"1", " ", "1", " ", "0", " ", "0", " ", "0", " ", "1", " ", "u", "t",
      "h", "s", "l", " ", "1", "9", ".", "9", " ", "0", ".", "0", "4", " ",
      "0", ".", "2", "1", " ", "2", "7", ".", "3", "\n">>
KMBar1Line1 ==
    <<"1", " ", "1", " ", "0", " ", "0", " ", "0", " ", "1", " ", "b", "a",
      "r", "1", " ", " ", " ", "1", "0", "1", "6", " ", "m", "b", "a", "r",
      "\n">>
KMBar1Line2 ==
    <<"1", " ", "1", " ", "0", " ", "0", " ", "0", " ", "2", " ", "b", "a",
      "r", "1", " ", " ", " ", "1", "0", "1", "6", " ", "m", "b", "a", "r",
      "\n">>
KMBadBar1Line ==
    <<"1", " ", "a", " ", "0", " ", "0", " ", "0", " ", "3", " ", "b", "a",
      "r", "1", " ", " ", " ", "1", "0", "1", "6", " ", "m", "b", "a", "r",
      "\n">>
KMOtherLine ==
    <<"$", "G", "P", "D", "T", "M", ",", "W", "8", "4", "\n">>
KMCutLine ==
    <<"1", " ", "1", " ", "0", " ", "0", " ", "0", " ", "1", " ", "f", "l",
      "o", "r", " ", "7", "8", ".", "0">>

KMLines ==
    {KMGeoLine, KMBadGeoLine, KMHeadingLine, KMFluorLine, KMParLine,
     KMThermoLine, KMBar1Line1, KMBar1Line2, KMBadBar1Line, KMOtherLine,
     KMCutLine, <<>>}

\* KMRead of the model's lines, read once.
KMReadTable == [line \in KMLines |-> KMRead(line)]
KMReadLine(line) == IF line \in KMLines THEN KMReadTable[line] ELSE KMRead(line)

\* ParseLine once the line is read: x is what KMRead found.
KMApply(p, x) ==
    CASE x.case = "GPGGA" ->
                [d |-> EmptyData,
                 p |-> [dm |-> KMChecked(p.dm, x.r, "bad GPGGA")]]
          [] x.case = "GPVTG" ->
                [d |-> EmptyData,
                 p |-> [dm |-> KMChecked(p.dm, x.r, "bad GPVTG")]]
          [] x.case = "flor" ->
                [d |-> EmptyData,
                 p |-> [dm |-> KMChecked(p.dm, x.r, "bad fluor")]]
          [] x.case = "met" ->
                [d |-> EmptyData,
                 p |-> [dm |-> KMChecked(p.dm, x.r, "bad met")]]
          [] x.case = "uthsl" ->
                [d |-> EmptyData,
                 p |-> [dm |-> KMChecked(p.dm, x.r, "bad uthsl")]]
          [] x.case = "bar1" ->
                LET g == GetData(KMFillNA(p.dm, 1))
                IN  [d |-> g.d,
                     p |-> [dm |-> IF x.r.ok THEN SetTime(g.dm, x.r.t)
                                   ELSE AddError(g.dm, "bad bar1 date")]]
          [] OTHER -> [d |-> EmptyData, p |-> p]

\* KiloMoanaParser.ParseLine: the Data returned and the parser afterwards.
KiloMoanaParseLine(p, line) == KMApply(p, KMReadLine(line))

KMIsBar1(line) == KMReadLine(line).case = "bar1"

KMIntervals == {0, 2}

\* Beside the parser: the kind of the last line, the Data it returned, and
\* what the input alone says about the stanza: fresh maps each column to the
\* value the latest valid line since the last bar1 gave it, closed is fresh as
\* it stood when a bar1 has just arrived; opened is the instant read from the
\* bar1 line that opened the stanza under way (0 when there is none or its
\* date is bad), closedAt is opened as it stood when a bar1 has just arrived.
KMStart(interval) ==
    [p |-> NewKiloMoanaParser(interval), op |-> "new", d |-> EmptyData,
     fresh |-> <<>>, closed |-> <<>>, opened |-> 0, closedAt |-> 0]

KMInit == \E i \in KMIntervals : km = KMStart(i)

KMIdle == km = KMStart(0)

\* The values a line sets when it is parsed on its own.
KMValuesRead(x) ==
        IF x.case \in {"GPGGA", "GPVTG", "flor", "met", "uthsl"} /\ x.r.ok
        THEN [k \in {x.r.add[i][1] : i \in 1 .. Len(x.r.add)} |->
                LET i == CHOOSE j \in 1 .. Len(x.r.add) : x.r.add[j][1] = k
                IN  x.r.add[i][2]]
        ELSE <<>>

KMLineValues(line) == KMValuesRead(KMReadLine(line))

KMOverride(f, g) ==
    [k \in DOMAIN f \cup DOMAIN g |-> IF k \in DOMAIN g THEN g[k] ELSE f[k]]

\* The state after a ParseLine call with result r.
KMAfter(r, op, fresh, closed, opened, closedAt) ==
    /\ Len(r.p.dm.errors) <= MaxErrors
    /\ km' = [p |-> r.p, op |-> op, d |-> r.d, fresh |-> fresh,
              closed |-> closed, opened |-> opened, closedAt |-> closedAt]

\* The instant of a bar1 line, read on its own.
KMOpenedAt(line) ==
    LET x == KMReadLine(line) IN IF x.r.ok THEN x.r.t ELSE 0

\* ParseLine on a bar1 line.
KMBar1 ==
    \E line \in KMLines :
        /\ KMIsBar1(line)
        /\ KMAfter(KiloMoanaParseLine(km.p, line), "bar1", <<>>, km.fresh,
                   KMOpenedAt(line), km.opened)

\* ParseLine on any other line that ends in LF.
KMLine ==
    \E line \in KMLines :
        /\ ~KMIsBar1(line) /\ EndsInLF(line)
        /\ KMAfter(KiloMoanaParseLine(km.p, line), "line",
                   KMOverride(km.fresh, KMLineValues(line)), <<>>,
                   km.opened, 0)

\* ParseLine on a line that is empty or does not end in LF; beside the
\* parser it counts as any other line.
KMUnterminated ==
    \E line \in KMLines :
        /\ ~EndsInLF(line)
        /\ KMAfter(KiloMoanaParseLine(km.p, line), "line",
                   KMOverride(km.fresh, KMLineValues(line)), <<>>,
                   km.opened, 0)

(***************************************************************************)
(* time.Time.Format with the RFC3339 and RFC3339Nano layouts, in UTC.  A   *)
(* non-zero instant t is t whole seconds after 2000-01-01T00:00:00Z, so    *)
(* both layouts print it alike; the zero time.Time is year 1.              *)
(***************************************************************************)
TwoDigits(n) == <<Digits[(n \div 10) + 1], Digits[(n % 10) + 1]>>

FormatRFC3339(t) ==
    IF t = 0
    THEN <<"0", "0", "0", "1", "-", "0", "1", "-", "0", "1", "T",
           "0", "0", ":", "0", "0", ":", "0", "0", "Z">>
    ELSE <<"2", "0", "0", "0", "-", "0", "1", "-", "0", "1", "T">>
         \o TwoDigits(t \div 3600) \o <<":">>
         \o TwoDigits((t \div 60) % 60) \o <<":">>
         \o TwoDigits(t % 60) \o <<"Z">>

\* Data.Line: the time and the values joined by sep.
Line(d, sep) == Join(<<FormatRFC3339(d.Time)>> \o d.Values, sep)

(***************************************************************************)
(* An io.Reader over a finite input: a Read returns at most chunk bytes,   *)
(* and at the end of the data io.EOF, or a read error if the source fails. *)
(***************************************************************************)
Min(a, b) == IF a < b THEN a ELSE b

NewReader(data, chunk, fail) == [data |-> data, chunk |-> chunk, fail |-> fail]

\* Read into a buffer with room for space bytes.
ReaderRead(r, space) ==
    LET n == Min(Min(r.chunk, space), Len(r.data))
    IN  IF n = 0
        THEN [r |-> r, bytes |-> <<>>,
              err |-> IF r.fail THEN "read error" ELSE "EOF"]
        ELSE [r |-> [r EXCEPT !.data = SubSeq(r.data, n + 1, Len(r.data))],
              bytes |-> SubSeq(r.data, 1, n), err |-> "nil"]

(***************************************************************************)
(* bufio.Scanner with its default buffer.  buf holds the bytes read and    *)
(* not yet consumed; a token that needs more than MaxScanTokenSize bytes   *)
(* ends the scan with ErrTooLong.                                          *)
(***************************************************************************)
\* bufio.MaxScanTokenSize (64 * 1024), scaled down.
MaxScanTokenSize == 48

\* bytes.IndexByte, 1-based; 0 when c does not occur.
IndexByte(data, c) ==
    IF \E i \in 1 .. Len(data) : data[i] = c
    THEN CHOOSE i \in 1 .. Len(data) :
            data[i] = c /\ \A j \in 1 .. i - 1 : data[j] # c
    ELSE 0

\* What a split function returns; some is FALSE for a nil token.
SplitResult(advance, some, token, err) ==
    [advance |-> advance, some |-> some, token |-> token, err |-> err]
MoreData == SplitResult(0, FALSE, <<>>, "nil")

\* dropCR: a final CR LF becomes LF.
dropCR(data) ==
    IF Len(data) > 1 /\ data[Len(data) - 1] = CR /\ data[Len(data)] = LF
    THEN Append(SubSeq(data, 1, Len(data) - 2), LF)
    ELSE data

\* scanLinesWithLF: a line with its LF, or the unterminated tail at EOF.
scanLinesWithLF(data, atEOF) ==
    LET i == IndexByte(data, LF)
    IN  IF atEOF /\ Len(data) = 0 THEN MoreData
        ELSE IF i > 0
             THEN SplitResult(i, TRUE, dropCR(SubSeq(data, 1, i)), "nil")
        ELSE IF atEOF THEN SplitResult(Len(data), TRUE, dropCR(data), "nil")
        ELSE MoreData

\* The text every RAWUDP header starts with.
RawUDPStart == <<"=", "=", "=", " ", "R", "A", "W", "U", "D", "P", ",">>

\* scanRawUDP once the length is parsed: the header line ends at position
\* i and payloadLen is what strconv.Atoi made of its third part.  A
\* negative length that passes the size test makes the slice expression
\* panic.
scanRawUDPPayload(data, atEOF, i, payloadLen) ==
    LET totalLen == i + payloadLen.val + 1
    IN  IF ~payloadLen.ok
        THEN SplitResult(0, FALSE, <<>>, "bad RAWUDP length")
        ELSE IF Len(data) >= totalLen
        THEN IF payloadLen.val = 0
             THEN SplitResult(totalLen, TRUE, <<>>, "nil")
             ELSE IF payloadLen.val < 0
             THEN SplitResult(0, FALSE, <<>>, "panic")
             ELSE SplitResult(totalLen, TRUE,
                              SubSeq(data, i + 1, totalLen - 1), "nil")
        ELSE IF ~atEOF THEN MoreData
        ELSE SplitResult(0, FALSE, <<>>, "incomplete RAWUDP payload")

\* scanRawUDP once the header line is found: it ends at position i and
\* parts are its comma-separated parts.
scanRawUDPHeader(data, atEOF, i, parts) ==
    IF Len(parts) # 3 THEN SplitResult(0, FALSE, <<>>, "bad RAWUDP header")
    ELSE scanRawUDPPayload(data, atEOF, i, Atoi(parts[3]))

\* scanRawUDP when data starts with the RAWUDP text: i is the position of
\* the first LF, 0 if there is none yet.
scanRawUDPLine(data, atEOF, i) ==
    IF i = 0 THEN MoreData
    ELSE scanRawUDPHeader(data, atEOF, i, Split(SubSeq(data, 1, i - 1), ","))

\* scanRawUDP: the payload of the envelope at the head of data.
scanRawUDP(data, atEOF) ==
    IF atEOF /\ Len(data) = 0 THEN MoreData
    ELSE IF HasPrefix(data, RawUDPStart)
    THEN scanRawUDPLine(data, atEOF, IndexByte(data, LF))
    ELSE IF Len(data) < Len(RawUDPStart)
            /\ data = SubSeq(RawUDPStart, 1, Len(data))
         THEN MoreData
    ELSE SplitResult(0, FALSE, <<>>, "bad RAWUDP start")

\* The split function a scanner was given.
SplitFunc(split, data, atEOF) ==
    IF split = "scanLinesWithLF" THEN scanLinesWithLF(data, atEOF)
    ELSE scanRawUDP(data, atEOF)

\* bufio.NewScanner(r) followed by scanner.Split(split).
NewScanner(r, split) ==
    [r |-> r, split |-> split, buf |-> <<>>, err |-> "nil", token |-> <<>>]

\* Scanner.Scan: the scanner after the call, and whether it has a token.
\* It splits what it holds; with no token there it stops at EOF or at an
\* error, fails with ErrTooLong on a full buffer, and otherwise reads on.
RECURSIVE Scan(_)

\* The scanner after a read from its reader.
ScanRead(s, rd) ==
    [s EXCEPT !.buf = s.buf \o rd.bytes, !.r = rd.r, !.err = rd.err]

\* One round of Scan, r being what the split function made of the buffer.
ScanSplit(s, r, atEOF) ==
    LET rest == SubSeq(s.buf, r.advance + 1, Len(s.buf))
    IN  IF r.err # "nil"
        THEN [s |-> [s EXCEPT !.err = r.err, !.token = <<>>], ok |-> FALSE]
        ELSE IF r.some
        THEN [s |-> [s EXCEPT !.buf = rest, !.token = r.token], ok |-> TRUE]
        ELSE IF atEOF
        THEN [s |-> [s EXCEPT !.buf = <<>>, !.token = <<>>], ok |-> FALSE]
        ELSE IF Len(rest) >= MaxScanTokenSize
        THEN [s |-> [s EXCEPT !.buf = rest, !.err = "ErrTooLong",
                              !.token = <<>>],
              ok |-> FALSE]
        ELSE Scan(ScanRead([s EXCEPT !.buf = rest],
                           ReaderRead(s.r, MaxScanTokenSize - Len(rest))))

Scan(s) ==
    IF Len(s.buf) > 0 \/ s.err # "nil"
    THEN ScanSplit(s, SplitFunc(s.split, s.buf, s.err # "nil"), s.err # "nil")
    ELSE ScanSplit(s, MoreData, FALSE)

\* Scanner.Err: io.EOF is not an error.
ScannerErr(s) == IF s.err = "EOF" THEN "nil" ELSE s.err

(***************************************************************************)
(* ParseLines.                                                             *)
(***************************************************************************)
\* The byte 0, which is not on the whitelist.
NUL == "NUL"

\* The byte values of the characters fed to ParseLines.
PLBytes == {"a", LF, CR, NUL}
ByteValue(c) ==
    CASE c = NUL -> 0
      [] c = TAB -> 9
      [] c = LF -> 10
      [] c = CR -> 13
      [] c = "a" -> 97

\* The test of Whitelist that also lets DEL (127) pass.
AcceptedThroughDEL(char) ==
    (char >= 32 /\ char <= 127) \/ char = 9 \/ char = 10 \/ char = 13

\* The test of Whitelist on one byte: Space to ~, TAB, LF, CR.
Accepted(char) ==
    (char >= 32 /\ char <= 126) \/ char = 9 \/ char = 10 \/ char = 13

\* The loop of Whitelist(b, n) from position i on: an accepted byte is
\* written to b[nclean] (positions from 0 in the code, from 1 here) and
\* nclean goes up.  The buffer and nclean when the loop ends.
RECURSIVE WhitelistLoop(_, _, _, _)
WhitelistLoop(b, n, i, nclean) ==
    IF i > n THEN [b |-> b, nclean |-> nclean]
    ELSE IF Accepted(b[i])
    THEN WhitelistLoop([b EXCEPT ![nclean + 1] = b[i]], n, i + 1, nclean + 1)
    ELSE WhitelistLoop(b, n, i + 1, nclean)

\* Whitelist(b, n) for 0 <= n <= len(b).
WhitelistInPlace(b, n) == WhitelistLoop(b, n, 1, 0)

\* Whitelist as ParseLines uses it, on the characters of the model:
\* n = Whitelist(b, n) and then b[:n].
Whitelisted(c) == Accepted(ByteValue(c))
Whitelist(b) == SelectSeq(b, Whitelisted)

\* The bytes the buffers are made of: the ends of the accepted ranges and
\* their neighbours.
WLBytes == {0, 9, 10, 13, 31, 32, 126, 127}

\* The longest buffer.
MaxBuffer == 3

WLStart == [op |-> "new", b |-> <<>>, n |-> 0, out |-> <<>>, nclean |-> 0]

WLIdle == wl = WLStart

\* The first call: Whitelist on a buffer and a length within it.
WLWhitelist ==
    \E len \in 0 .. MaxBuffer :
      \E b \in [1 .. len -> WLBytes], n \in 0 .. len :
        LET r == WhitelistInPlace(b, n)
        IN  /\ wl.op = "new"
            /\ wl' = [op |-> "Whitelist", b |-> b, n |-> n, out |-> r.b,
                      nclean |-> r.nclean]

\* Whitelist on what the last call left: the same buffer, the length it
\* returned.
WLAgain ==
    /\ wl.op # "new"
    /\ LET r == WhitelistInPlace(wl.out, wl.nclean)
       IN  wl' = [op |-> "again", b |-> wl.out, n |-> wl.nclean,
                  out |-> r.b, nclean |-> r.nclean]

\* Longest input, in bytes, apart from the one over-long line.
MaxInput == 3

RECURSIVE SeqsUpTo(_, _)
SeqsUpTo(S, n) ==
    IF n = 0 THEN {<<>>}
    ELSE LET shorter == SeqsUpTo(S, n - 1)
         IN  shorter \cup {Append(s, c) : s \in shorter, c \in S}

\* A line with no LF that is one byte longer than the scanner can hold.
LongLine == [i \in 1 .. MaxScanTokenSize + 1 |-> "a"]

PLInputs == SeqsUpTo(PLBytes, MaxInput) \cup {LongLine}

\* Bytes the reader hands over per Read: a short input arrives byte by
\* byte or at once, the long line in a few pieces or at once.
PLChunks(input) ==
    IF Len(input) > MaxScanTokenSize
    THEN {MaxScanTokenSize \div 4, MaxScanTokenSize}
    ELSE {1, MaxScanTokenSize}

\* What a Parser may return from ParseLine.
PLValue == <<"1", ".", "5">>
PLData ==
    { EmptyData,
      Data(1, FALSE, <<PLValue, NA>>, <<>>),
      Data(2, FALSE, <<PLValue>>, <<"bad float">>),
      Data(1, TRUE, <<PLValue, NA>>, <<>>),
      Data(0, FALSE, <<PLValue>>, <<>>),
      Data(1, FALSE, <<>>, <<"bad float">>) }

PLStart(input, chunk, fail, flushFlag, noCleanFlag) ==
    [scanner |-> NewScanner(NewReader(input, chunk, fail), "scanLinesWithLF"),
     flushFlag |-> flushFlag, noCleanFlag |-> noCleanFlag,
     geo |-> <<>>, flushed |-> FALSE, input |-> input, tokens |-> <<>>,
     op |-> "start", line |-> <<>>, d |-> EmptyData, before |-> <<>>,
     err |-> "nil", returned |-> FALSE]

PLInit ==
    \E input \in PLInputs, fail, flushFlag, noCleanFlag \in BOOLEAN :
      \E chunk \in PLChunks(input) :
        pl = PLStart(input, chunk, fail, flushFlag, noCleanFlag)

PLIdle == pl = PLStart(<<>>, 1, FALSE, FALSE, FALSE)

\* Beside the loop: input is what the reader was given, tokens are the
\* scanner's tokens so far, before they are cleaned.
\* One pass of the loop of ParseLines: the scanner has a line; it is
\* cleaned and parsed, a record that is OK is written to the geo feed, and
\* the storer is flushed if asked.  The storer may fail either call.
PLLine ==
    /\ ~pl.returned
    /\ Scan(pl.scanner).ok
    /\ \E d \in PLData, writeFails, flushFails \in BOOLEAN :
        LET sc == Scan(pl.scanner)
            b == sc.s.token
            line == IF pl.noCleanFlag THEN b ELSE Whitelist(b)
            written == OK(d) /\ ~writeFails
            flushing == pl.flushFlag /\ ~(OK(d) /\ writeFails)
        IN  /\ writeFails => OK(d)
            /\ flushFails => flushing
            /\ pl' = [pl EXCEPT
                 !.scanner = sc.s, !.tokens = Append(pl.tokens, b),
                 !.op = "line", !.line = line, !.d = d, !.before = pl.geo,
                 !.geo = IF written
                         THEN Append(pl.geo, Line(d, <<TAB>>) \o <<LF>>)
                         ELSE pl.geo,
                 !.flushed = IF flushing /\ ~flushFails THEN TRUE
                             ELSE pl.flushed,
                 !.err = IF OK(d) /\ writeFails
                         THEN "error writing parsed data"
                         ELSE IF flushFails THEN "error flushing data"
                         ELSE "nil",
                 !.returned = (OK(d) /\ writeFails) \/ flushFails]

\* The scanner has no more lines: ParseLines returns, with the scanner's
\* error if it has one.
PLReturn ==
    /\ ~pl.returned
    /\ ~Scan(pl.scanner).ok
    /\ LET sc == Scan(pl.scanner)
       IN  pl' = [pl EXCEPT
                 !.scanner = sc.s, !.op = "return", !.before = pl.geo,
                 !.err = IF ScannerErr(sc.s) # "nil"
                         THEN "error reading lines" ELSE "nil",
                 !.returned = TRUE]

(***************************************************************************)
(* The RAWUDP envelope and its reader.                                     *)
(***************************************************************************)
\* WrapUDPPayload: header line, payload, LF.
WrapUDPPayload(now, payload) ==
    RawUDPStart \o FormatRFC3339(now) \o <<",">>
        \o NatToChars(Len(payload)) \o <<LF>> \o payload \o <<LF>>

\* NewRawUDPReader
NewRawUDPReader(r) ==
    [scanner |-> NewScanner(r, "scanRawUDP"), buffer |-> <<>>, eof |-> FALSE]

\* bytes.Buffer.Read into a slice of length plen > 0.
BufferRead(r, plen) ==
    LET n == Min(plen, Len(r.buffer))
    IN  IF Len(r.buffer) = 0 THEN [r |-> r, p |-> <<>>, err |-> "EOF"]
        ELSE [r |-> [r EXCEPT !.buffer = SubSeq(r.buffer, n + 1,
                                                Len(r.buffer))],
              p |-> SubSeq(r.buffer, 1, n), err |-> "nil"]

\* The loop of Read: payloads are scanned into the buffer until it can
\* fill the caller's slice or the scanner stops.
RECURSIVE ReadFill(_, _)

\* One round of the loop, sc being the result of scanner.Scan.
ReadScanned(r, sc, plen) ==
    LET filled == [r EXCEPT !.scanner = sc.s,
                            !.buffer = r.buffer \o sc.s.token]
        ended == [r EXCEPT !.scanner = sc.s, !.eof = TRUE]
    IN  IF sc.ok
        THEN IF Len(filled.buffer) >= plen THEN BufferRead(filled, plen)
             ELSE ReadFill(filled, plen)
        ELSE IF ScannerErr(sc.s) # "nil"
        THEN [r |-> ended, p |-> <<>>, err |-> ScannerErr(sc.s)]
        ELSE BufferRead(ended, plen)

ReadFill(r, plen) == ReadScanned(r, Scan(r.scanner), plen)

\* RawUDPReader.Read into a slice of length plen: the reader after the
\* call, the bytes put in the slice, and the error.
Read(r, plen) ==
    IF plen = 0 THEN [r |-> r, p |-> <<>>, err |-> "nil"]
    ELSE IF Len(r.buffer) > 0 THEN BufferRead(r, plen)
    ELSE IF r.eof THEN [r |-> r, p |-> <<>>, err |-> "EOF"]
    ELSE ReadFill(r, plen)

\* Most payloads in a wrapped stream.
MaxPayloads == 2

\* The length of an envelope less its payload, for payloads of 10 to 99
\* bytes: the start text, a timestamp and a comma, two digits, two LFs.
EnvelopeOverhead == Len(RawUDPStart) + Len(FormatRFC3339(1)) + 5

\* The longest payload whose envelope the scanner can hold, and one that
\* is a byte longer.
FullPayload == [i \in 1 .. MaxScanTokenSize - EnvelopeOverhead |-> "a"]
LongPayload == FullPayload \o <<"a">>

RUPayloads ==
    { <<>>, <<LF>>, <<"a">>, <<"a", LF, "b">>, RawUDPStart, FullPayload,
      LongPayload }

\* An envelope that the input may end in the middle of, and the length of
\* its header line.
RUEnvelope == WrapUDPPayload(1, <<"a", "b">>)
RUHeaderLen == IndexByte(RUEnvelope, LF) - 1

\* The envelope cut before the LF of its header line: inside the start
\* text, after it, and before the LF.
RUCutHeader ==
    {SubSeq(RUEnvelope, 1, n) : n \in {2, Len(RawUDPStart), RUHeaderLen}}

\* The envelope cut after its header line: before the payload, inside it,
\* and before the final LF.
RUCutPayload ==
    {SubSeq(RUEnvelope, 1, n) : n \in RUHeaderLen + 1 .. Len(RUEnvelope) - 1}

\* Streams that do not begin with the start text.
RUBadStart ==
    { <<"x">>,
      <<"=", "=", "=", " ", "R", "A", "B", "A", "W", "U", "D", "P", ",", "t",
        ",", "1", LF, "a", LF>> }

\* Header lines of two and of four parts.
RUBadHeader ==
    { RawUDPStart \o <<"1", LF, "a", LF>>,
      RawUDPStart \o <<"t", ",", "1", ",", "1", LF, "a", LF>> }

\* Header lines whose third part is no integer.
RUBadLength ==
    { RawUDPStart \o <<"t", ",", "x", LF, "a", LF>>,
      RawUDPStart \o <<"t", ",", LF, LF>> }

\* Header lines whose third part is a negative integer.
RUNegativeLength ==
    { RawUDPStart \o <<"t", ",", "-", "1", LF, LF>>,
      RawUDPStart \o <<"t", ",", "-", "3", LF, "a", LF>> }

\* What may follow the well-formed envelopes: nothing, a cut envelope, or
\* a damaged one.
RUTails ==
    {<<>>} \cup RUCutHeader \cup RUCutPayload \cup RUBadStart
        \cup RUBadHeader \cup RUBadLength \cup RUNegativeLength

RUChunks == {6, 16, MaxScanTokenSize}
\* The lengths of the slices the caller reads into.
RUSlices == {1, 2, 16}

RECURSIVE Concat(_)
Concat(ss) == IF ss = <<>> THEN <<>> ELSE ss[1] \o Concat(Tail(ss))

\* The envelopes of the payloads, the i-th wrapped at instant i.
WrapAll(payloads) ==
    Concat([i \in 1 .. Len(payloads) |-> WrapUDPPayload(i, payloads[i])])

RUStart(payloads, tail, chunk) ==
    [r |-> NewRawUDPReader(NewReader(WrapAll(payloads) \o tail, chunk, FALSE)),
     payloads |-> payloads, tail |-> tail,
     op |-> "start", out |-> <<>>, n |-> 0, err |-> "nil", failed |-> "nil"]

RUInit ==
    \E payloads \in SeqsUpTo(RUPayloads, MaxPayloads),
       tail \in RUTails, chunk \in RUChunks :
        ru = RUStart(payloads, tail, chunk)

RUIdle == ru = RUStart(<<>>, <<>>, 1)

\* The caller reads once, into a slice of some length, and keeps what it
\* got; failed is the first error other than EOF that a Read returned.
RUAfter(res) ==
    ru' = [ru EXCEPT !.r = res.r, !.op = "Read", !.out = ru.out \o res.p,
                     !.n = Len(res.p), !.err = res.err,
                     !.failed = IF ru.failed = "nil"
                                   /\ res.err \notin {"nil", "EOF"}
                                THEN res.err ELSE ru.failed]

RURead == \E plen \in RUSlices : RUAfter(Read(ru.r, plen))

(***************************************************************************)
(* DiskStorage over one feed file.  The file is opened for appending       *)
(* behind a bufio.Writer, so bytes reach the disk when the buffer fills,   *)
(* on Flush and on Close.                                                  *)
(***************************************************************************)
\* The buffer size NewDiskStorage uses for buffSize <= 0 (1 << 16), scaled
\* down.
DefaultBuffSize == 8
\* Most storage instances constructed in a run, and most records written.
MaxSessions == 3
MaxWrites == 2

\* The instances that may use the file.
STInst == {1, 2}
\* The buffSize arguments of NewDiskStorage.
STBuffSizes == {0, 1, 3}
\* The header text the feed is declared with, the same in every session.
STHeaders == { <<>>, <<"h">>, <<"h", LF>>, <<"h", LF, "t">> }
\* The strings written to the feed.
STRecords == { <<"r", LF>> }
\* How many bytes the file accepts in a call before its writes fail; -1
\* for writes that do not fail.
STAccepts == {-1, 0, 1}

\* bufio.NewWriterSize: an empty buffer and no error.
NewWriterSize(size) == [size |-> size, buf |-> <<>>, err |-> FALSE]

\* Flush that forgets what the file did not accept and reports no error.
WriterFlushDropsRest(w, disk, accept) ==
    LET n == IF accept < 0 THEN Len(w.buf) ELSE Min(accept, Len(w.buf))
    IN  IF w.err THEN [w |-> w, disk |-> disk, accept |-> accept, ok |-> FALSE]
        ELSE [w |-> [w EXCEPT !.buf = <<>>],
              disk |-> disk \o SubSeq(w.buf, 1, n),
              accept |-> IF accept < 0 THEN accept ELSE accept - n,
              ok |-> TRUE]

\* bufio.Writer.Flush: the buffer is appended to the file; a write that
\* fails or is short keeps the rest and leaves the writer in error.
WriterFlush(w, disk, accept) ==
    LET n == IF accept < 0 THEN Len(w.buf) ELSE Min(accept, Len(w.buf))
    IN  IF w.err THEN [w |-> w, disk |-> disk, accept |-> accept, ok |-> FALSE]
        ELSE IF w.buf = <<>>
        THEN [w |-> w, disk |-> disk, accept |-> accept, ok |-> TRUE]
        ELSE [w |-> [w EXCEPT !.buf = SubSeq(w.buf, n + 1, Len(w.buf)),
                              !.err = n < Len(w.buf)],
              disk |-> disk \o SubSeq(w.buf, 1, n),
              accept |-> IF accept < 0 THEN accept ELSE accept - n,
              ok |-> n = Len(w.buf)]

\* bufio.Writer.WriteString: while s does not fit, the buffer is filled
\* and flushed; the rest stays in the buffer.
RECURSIVE WriterWriteString(_, _, _, _)
WriterWriteString(w, disk, s, accept) ==
    LET avail == w.size - Len(w.buf)
        fl == WriterFlush([w EXCEPT !.buf = w.buf \o SubSeq(s, 1, avail)],
                          disk, accept)
    IN  IF Len(s) > avail /\ ~w.err
        THEN WriterWriteString(fl.w, fl.disk,
                               SubSeq(s, avail + 1, Len(s)), fl.accept)
        ELSE IF w.err THEN [w |-> w, disk |-> disk, ok |-> FALSE]
        ELSE [w |-> [w EXCEPT !.buf = w.buf \o s], disk |-> disk, ok |-> TRUE]

\* hasData that never finds data.
hasDataNever(exists, disk) == [ok |-> exists, hasData |-> FALSE]

\* hasData: whether the file on disk has a size above 0; an error if the
\* file cannot be opened.
hasData(exists, disk) == [ok |-> exists, hasData |-> Len(disk) > 0]

\* The header written as it was declared.
HeaderTextAsDeclared(header) == header

\* The header as writeHeader writes it: with an LF added if it lacks one.
HeaderText(header) ==
    IF Len(header) > 0 /\ header[Len(header)] # LF
    THEN header \o <<LF>> ELSE header

\* A DiskStorage that has not been constructed.
STNone ==
    [pc |-> "none", w |-> NewWriterSize(DefaultBuffSize), hasData |-> FALSE,
     lazy |-> FALSE, base |-> <<>>, written |-> <<>>, closeOk |-> FALSE,
     flushOk |-> FALSE]

STStart(header) ==
    [exists |-> FALSE, disk |-> <<>>, header |-> header,
     sessions |-> 0, writes |-> 0, op |-> "start", actor |-> 0,
     inst |-> [i \in STInst |-> STNone]]

STInit == \E header \in STHeaders : st = STStart(header)

STIdle == st = STStart(<<>>)

\* No other instance has the file open.
Alone(i) ==
    \A j \in STInst \ {i} : st.inst[j].pc \in {"none", "closed", "dead"}

\* NewDiskStorage up to setOutput in writeHeader: the file is created if
\* absent and opened for appending behind a new buffered writer.
STSetOutput(i) ==
    /\ st.inst[i].pc \in {"none", "closed", "dead"}
    /\ st.sessions < MaxSessions
    /\ \E buffSize \in STBuffSizes :
        st' = [st EXCEPT
            !.exists = TRUE, !.sessions = st.sessions + 1,
            !.op = "setOutput", !.actor = i,
            !.inst[i] = [pc |-> "opened",
                         w |-> NewWriterSize(IF buffSize <= 0
                                             THEN DefaultBuffSize
                                             ELSE buffSize),
                         hasData |-> FALSE, lazy |-> FALSE,
                         base |-> st.disk, written |-> <<>>,
                         closeOk |-> FALSE, flushOk |-> FALSE]]

\* NewDiskStorage with no header declared for the feed, then the first
\* WriteString on the feed: setOutput opens the file and the string goes
\* to the new writer.
STWriteStringLazy(i) ==
    /\ st.inst[i].pc \in {"none", "closed", "dead"}
    /\ st.sessions < MaxSessions
    /\ st.writes < MaxWrites
    /\ \E buffSize \in STBuffSizes, s \in STRecords, accept \in STAccepts :
        LET r == WriterWriteString(
                     NewWriterSize(IF buffSize <= 0 THEN DefaultBuffSize
                                   ELSE buffSize),
                     st.disk, s, accept)
        IN  st' = [st EXCEPT
                !.exists = TRUE, !.sessions = st.sessions + 1,
                !.writes = st.writes + 1,
                !.op = "WriteStringLazy", !.actor = i, !.disk = r.disk,
                !.inst[i] = [pc |-> "ready", w |-> r.w, hasData |-> FALSE,
                             lazy |-> TRUE, base |-> st.disk,
                             written |-> s, closeOk |-> FALSE,
                             flushOk |-> FALSE]]

\* writeHeader: the size check.
STHasData(i) ==
    /\ st.inst[i].pc = "opened"
    /\ LET r == hasData(st.exists, st.disk)
       IN  st' = [st EXCEPT
               !.op = "hasData", !.actor = i,
               !.inst[i].pc = IF r.ok THEN "checked" ELSE "dead",
               !.inst[i].hasData = r.hasData]

\* writeHeader: the header goes to the buffered writer if the size check
\* found no data.  NewDiskStorage returns its error if the write fails.
STWriteHeader(i) ==
    /\ st.inst[i].pc = "checked"
    /\ \E accept \in STAccepts :
        LET r == WriterWriteString(st.inst[i].w, st.disk,
                                   HeaderText(st.header), accept)
        IN  IF st.inst[i].hasData
            THEN /\ accept = -1
                 /\ st' = [st EXCEPT !.op = "writeHeader", !.actor = i,
                                     !.inst[i].pc = "ready"]
            ELSE st' = [st EXCEPT
                     !.op = "writeHeader", !.actor = i, !.disk = r.disk,
                     !.inst[i].w = r.w,
                     !.inst[i].pc = IF r.ok THEN "ready" ELSE "dead"]

\* DiskStorage.WriteString on the feed.
STWriteString(i) ==
    /\ st.inst[i].pc = "ready"
    /\ st.writes < MaxWrites
    /\ \E s \in STRecords, accept \in STAccepts :
        LET r == WriterWriteString(st.inst[i].w, st.disk, s, accept)
        IN  st' = [st EXCEPT !.op = "WriteString", !.actor = i,
                             !.disk = r.disk, !.writes = st.writes + 1,
                             !.inst[i].w = r.w, !.inst[i].flushOk = FALSE,
                             !.inst[i].written = st.inst[i].written \o s]

\* DiskStorage.Flush; flushOk is whether it returned nil.
STFlush(i) ==
    /\ st.inst[i].pc = "ready"
    /\ \E accept \in STAccepts :
        LET r == WriterFlush(st.inst[i].w, st.disk, accept)
        IN  st' = [st EXCEPT !.op = "Flush", !.actor = i, !.disk = r.disk,
                             !.inst[i].w = r.w, !.inst[i].flushOk = r.ok]

\* DiskStorage.Close: a flush, then the file is closed; either may fail.
STClose(i) ==
    /\ st.inst[i].pc = "ready"
    /\ \E accept \in STAccepts, closeFails \in BOOLEAN :
        LET r == WriterFlush(st.inst[i].w, st.disk, accept)
        IN  st' = [st EXCEPT !.op = "Close", !.actor = i, !.disk = r.disk,
                             !.inst[i].w = r.w,
                             !.inst[i].pc = "closed",
                             !.inst[i].flushOk = FALSE,
                             !.inst[i].closeOk = r.ok /\ ~closeFails]

\* The process ends without Close: what its writer held is lost.
STExit(i) ==
    /\ st.inst[i].pc \in {"opened", "checked", "ready"}
    /\ st' = [st EXCEPT !.op = "exit", !.actor = i, !.inst[i].pc = "dead"]

(***************************************************************************)
(* main.  In UDP mode one goroutine per port reads datagrams and sends     *)
(* them on an unbuffered channel, a consumer goroutine takes them, writes  *)
(* the envelope to the raw feed and runs ParseLines, and main waits for    *)
(* the readers.  In stdin mode main runs ParseLines itself.  A goroutine   *)
(* waits for SIGINT or SIGTERM.  A storer call takes time: it is begun by  *)
(* one step and ended by another.                                          *)
(***************************************************************************)
\* Most datagrams received in a run.
MaxDatagrams == 2

\* The ports of -port.
MNPorts == {1, 2}
\* Datagram payloads, and the content of stdin.
MNPayloads == { <<"a", LF>>, <<"a", LF, "b", LF>> }
\* What the parser may return for a line.
MNData ==
    { EmptyData,
      Data(1, FALSE, <<PLValue>>, <<>>),
      Data(2, FALSE, <<PLValue>>, <<>>) }
\* The goroutines that close the storer: main and the signal handler.
MNClosers == {"main", "sig"}

\* The consumer's next step after it took a datagram.
MNAfterTakeNoRaw(rawFlag) == "scan"
MNAfterTake(rawFlag) == IF rawFlag THEN "rawCall" ELSE "scan"

\* The storer calls of the consumer, while they run.
MNCalls == {"rawCall", "geoCall", "flushCall"}

MNStart(mode, rawFlag, flushFlag, stdin, fail) ==
    [mode |-> mode, rawFlag |-> rawFlag, flushFlag |-> flushFlag,
     rd |-> [p \in MNPorts |->
                [pc |-> IF mode = "udp" THEN "read" ELSE "done",
                 data |-> <<>>]],
     got |-> 0, taken |-> 0, chanClosed |-> FALSE,
     co |-> [pc |-> IF mode = "udp" THEN "recv" ELSE "scan",
             dg |-> IF mode = "udp" THEN 0 ELSE 1, ln |-> 0, time |-> 0,
             scanner |-> NewScanner(
                 NewReader(stdin, MaxScanTokenSize, fail),
                 "scanLinesWithLF")],
     mut |-> "free",
     pc |-> [c \in MNClosers |-> IF c = "main" THEN "run" ELSE "wait"],
     closed |-> FALSE, exitcode |-> 0, exited |-> -1,
     out |-> <<>>,
     readFailed |-> FALSE, ioFailed |-> FALSE, rawFailed |-> FALSE,
     parseFailed |-> FALSE, closeFailed |-> FALSE, signalled |-> FALSE]

MNInit ==
    \/ \E rawFlag, flushFlag \in BOOLEAN :
          mn = MNStart("udp", rawFlag, flushFlag, <<>>, FALSE)
    \/ \E flushFlag, fail \in BOOLEAN, stdin \in MNPayloads :
          mn = MNStart("stdin", FALSE, flushFlag, stdin, fail)

MNIdle == mn = MNStart("stdin", FALSE, FALSE, <<>>, FALSE)

MNRunning == mn.exited = -1

\* l.ReadFromUDP returns a datagram; the reader copies it and blocks on the
\* channel send.
MNRead(p) ==
    /\ MNRunning
    /\ mn.rd[p].pc = "read"
    /\ mn.got < MaxDatagrams
    /\ \E data \in MNPayloads :
        mn' = [mn EXCEPT !.rd[p] = [pc |-> "send", data |-> data],
                         !.got = mn.got + 1]

\* l.ReadFromUDP fails: the reader leaves its loop and is done.
MNReadFail(p) ==
    /\ MNRunning
    /\ mn.rd[p].pc = "read"
    /\ mn' = [mn EXCEPT !.rd[p] = [pc |-> "done", data |-> <<>>],
                        !.readFailed = TRUE]

\* The consumer takes a datagram from the channel; with -raw it begins to
\* write the envelope, else it begins ParseLines.
MNTake(p) ==
    /\ MNRunning
    /\ mn.rd[p].pc = "send"
    /\ mn.co.pc = "recv"
    /\ mn' = [mn EXCEPT
            !.rd[p] = [pc |-> "read", data |-> <<>>],
            !.taken = mn.taken + 1,
            !.co = [pc |-> MNAfterTake(mn.rawFlag),
                    dg |-> mn.taken + 1, ln |-> 0, time |-> 0,
                    scanner |-> NewScanner(
                        NewReader(mn.rd[p].data, MaxScanTokenSize, FALSE),
                        "scanLinesWithLF")]]

\* WriteString on the raw feed ends; a failure is logged and no more.
MNRawDone ==
    /\ MNRunning
    /\ mn.co.pc = "rawCall"
    /\ \E fails \in BOOLEAN :
        mn' = [mn EXCEPT
            !.co.pc = "scan",
            !.rawFailed = mn.rawFailed \/ fails,
            !.out = IF fails THEN mn.out
                    ELSE Append(mn.out, [feed |-> "raw", dg |-> mn.co.dg,
                                         ln |-> 0, time |-> 0])]

\* ParseLines returns.  In UDP mode an error ends the consumer and sets the
\* exit code, and no error sends it back to the channel; in stdin mode
\* main goes on to close the storer.
MNReturns(m, errored) ==
    [m EXCEPT
        !.exitcode = IF errored THEN 1 ELSE m.exitcode,
        !.parseFailed = m.parseFailed \/ errored,
        !.co.pc = IF m.mode = "udp" /\ ~errored THEN "recv" ELSE "done",
        !.co.ln = 0, !.co.time = 0,
        !.pc["main"] = IF m.mode = "udp" THEN m.pc["main"] ELSE "lock"]

\* After a line: the flush of -flush, or the next line.
MNAfterLine(flushFlag) == IF flushFlag THEN "flushCall" ELSE "scan"

\* ParseLines with sc the result of scanner.Scan and d what the parser
\* returns for the line.
MNScanned(sc, d) ==
    IF sc.ok
    THEN [mn EXCEPT
            !.co.scanner = sc.s, !.co.ln = mn.co.ln + 1,
            !.co.time = d.Time,
            !.co.pc = IF OK(d) THEN "geoCall" ELSE MNAfterLine(mn.flushFlag)]
    ELSE MNReturns([mn EXCEPT !.co.scanner = sc.s],
                   ScannerErr(sc.s) # "nil")

\* ParseLines: the scanner is asked for a line, the line is parsed, and the
\* write of a record that is OK begins.
MNScan ==
    /\ MNRunning
    /\ mn.co.pc = "scan"
    /\ \E d \in MNData :
        /\ ~Scan(mn.co.scanner).ok => d = EmptyData
        /\ mn' = MNScanned(Scan(mn.co.scanner), d)

\* WriteString on the geo feed ends; a failure makes ParseLines return it.
MNGeoDone ==
    /\ MNRunning
    /\ mn.co.pc = "geoCall"
    /\ \E fails \in BOOLEAN :
        mn' = IF fails
              THEN MNReturns([mn EXCEPT !.ioFailed = TRUE], TRUE)
              ELSE [mn EXCEPT
                      !.co.pc = MNAfterLine(mn.flushFlag), !.co.time = 0,
                      !.out = Append(mn.out,
                                     [feed |-> "geo", dg |-> mn.co.dg,
                                      ln |-> mn.co.ln,
                                      time |-> mn.co.time])]

\* Flush ends; a failure makes ParseLines return it.
MNFlushDone ==
    /\ MNRunning
    /\ mn.co.pc = "flushCall"
    /\ \E fails \in BOOLEAN :
        mn' = IF fails
              THEN MNReturns([mn EXCEPT !.ioFailed = TRUE], TRUE)
              ELSE [mn EXCEPT !.co.pc = "scan"]

\* The channel is closed: the consumer's range loop ends.
MNRangeEnd ==
    /\ MNRunning
    /\ mn.co.pc = "recv"
    /\ mn.chanClosed
    /\ mn' = [mn EXCEPT !.co.pc = "done"]

\* Every reader is done: wg.Wait returns and main closes the channel.
MNWaitDone ==
    /\ MNRunning
    /\ mn.mode = "udp"
    /\ mn.pc["main"] = "run"
    /\ \A p \in MNPorts : mn.rd[p].pc = "done"
    /\ mn' = [mn EXCEPT !.chanClosed = TRUE, !.pc["main"] = "lock"]

\* SIGINT or SIGTERM arrives.
MNSignal ==
    /\ MNRunning
    /\ mn.pc["sig"] = "wait"
    /\ mn' = [mn EXCEPT !.pc["sig"] = "lock", !.signalled = TRUE]

\* mut.Lock, and storer.Close begins.
MNLock(c) ==
    /\ MNRunning
    /\ mn.pc[c] = "lock"
    /\ mn.mut = "free"
    /\ mn' = [mn EXCEPT !.mut = c, !.pc[c] = "closing"]

\* storer.Close ends, and mut.Unlock.  main sets the exit code if Close
\* failed; the handler only logs it.
MNCloseDone(c) ==
    /\ MNRunning
    /\ mn.pc[c] = "closing"
    /\ \E fails \in BOOLEAN :
        mn' = [mn EXCEPT
            !.closed = TRUE, !.mut = "free", !.pc[c] = "exit",
            !.closeFailed = mn.closeFailed \/ (fails /\ c = "main"),
            !.exitcode = IF fails /\ c = "main" THEN 1 ELSE mn.exitcode]

\* os.Exit: 1 from the handler, the exit code from main.
MNExit(c) ==
    /\ MNRunning
    /\ mn.pc[c] = "exit"
    /\ mn' = [mn EXCEPT !.exited = IF c = "sig" THEN 1 ELSE mn.exitcode]

(***************************************************************************)
(* The parsers of a one-line stanza $SEAFLOW::<ZDA>::<GGA>::<TSG>::<PAR>:  *)
(* TN427Parser, TN448Parser and Gradients5Parser.  Instants are seconds    *)
(* since 2000-01-01T00:00:00Z; 0 is the zero time.Time, and no line of the *)
(* model is dated at that very second.                                     *)
(***************************************************************************)
\* strings.Split(s, sep) for a sep of any length: cut s at the first sep at
\* or after position start, and go on behind it.
SepAt(s, sep, start) ==
    {i \in start .. Len(s) - Len(sep) + 1 :
        SubSeq(s, i, i + Len(sep) - 1) = sep}

SplitCut(s, sep, start, at) == CHOOSE i \in at : \A j \in at : i <= j

RECURSIVE SplitSepFrom(_, _, _)
SplitSepFrom(s, sep, start) ==
    IF SepAt(s, sep, start) = {} THEN <<SubSeq(s, start, Len(s))>>
    ELSE <<SubSeq(s, start, SplitCut(s, sep, start, SepAt(s, sep, start)) - 1)>>
         \o SplitSepFrom(s, sep, SplitCut(s, sep, start, SepAt(s, sep, start))
                                  + Len(sep))

SplitSep(s, sep) == SplitSepFrom(s, sep, 1)

IsLeap(y) == (y % 4 = 0 /\ y % 100 # 0) \/ y % 400 = 0

DaysIn(y, m) ==
    IF m = 2 THEN (IF IsLeap(y) THEN 29 ELSE 28)
    ELSE IF m \in {4, 6, 9, 11} THEN 30 ELSE 31

RECURSIVE DaysBeforeMonth(_, _)
DaysBeforeMonth(y, m) ==
    IF m <= 1 THEN 0 ELSE DaysBeforeMonth(y, m - 1) + DaysIn(y, m - 1)

\* The instant of a calendar date and time of day, each in its range.
Instant(y, mo, d, h, mi, s) ==
    (((DaysBeforeYear(y) - DaysBeforeYear(2000) + DaysBeforeMonth(y, mo)
       + (d - 1)) * 24 + h) * 60 + mi) * 60 + s

\* Whether a date and time of day are a date and a time: what time.Parse
\* checks, and what makes time.Date return the components it was given.
InRange(y, mo, d, h, mi, s) ==
    /\ mo \in 1 .. 12 /\ d >= 1 /\ d <= DaysIn(y, mo)
    /\ h \in 0 .. 23 /\ mi \in 0 .. 59 /\ s \in 0 .. 59

AllDigits(s) == \A i \in 1 .. Len(s) : IsDigit(s[i])

\* time.Parse(time.RFC3339, s) for s = date "T" hh ":" mm ":" ss "Z", the
\* form both parsers compose: year of four digits, the others of two.
ParseRFC3339Parts(y, mo, d, h, mi, s) ==
    IF /\ Len(y) = 4 /\ Len(mo) = 2 /\ Len(d) = 2
       /\ Len(h) = 2 /\ Len(mi) = 2 /\ Len(s) = 2
       /\ AllDigits(y \o mo \o d \o h \o mi \o s)
       /\ InRange(DigitsValue(y), DigitsValue(mo), DigitsValue(d),
                  DigitsValue(h), DigitsValue(mi), DigitsValue(s))
    THEN [ok |-> TRUE,
          t |-> Instant(DigitsValue(y), DigitsValue(mo), DigitsValue(d),
                        DigitsValue(h), DigitsValue(mi), DigitsValue(s))]
    ELSE [ok |-> FALSE, t |-> 0]

\* ParseLine, "Parse time": the fields of the ZDA group.
DCTime(timeFields) ==
    IF Len(timeFields) # 7 THEN [ok |-> FALSE, t |-> 0]
    ELSE IF Len(timeFields[2]) # 9 THEN [ok |-> FALSE, t |-> 0]
    ELSE ParseRFC3339Parts(timeFields[5], timeFields[4], timeFields[3],
                           SubSeq(timeFields[2], 1, 2),
                           SubSeq(timeFields[2], 3, 4),
                           SubSeq(timeFields[2], 5, 6))

\* ParseLine, "Latitude and Longitude", after the two conversions.
DCLatLonConverted(lat, lon) ==
    IF ~lat.ok THEN [ok |-> FALSE, err |-> "bad GPGGA lat", vals |-> <<>>]
    ELSE IF ~lon.ok
    THEN [ok |-> FALSE, err |-> "bad GPGGA lon", vals |-> <<>>]
    ELSE [ok |-> TRUE, err |-> "", vals |-> <<lat.dd, lon.dd>>]

\* ParseLine, "Latitude and Longitude": the fields of the GGA group.
DCLatLon(f) ==
    IF Len(f) # 15 THEN [ok |-> FALSE, err |-> "bad GPGGA", vals |-> <<>>]
    ELSE DCLatLonConverted(GGALat2DD(f[3], f[4]), GGALon2DD(f[5], f[6]))

\* One column of the TSG group of TN427: the trimmed text if it parses as a
\* float, else NA and an error.
TN427Float(field) ==
    IF ParseFloat(TrimSpace(field)).ok
    THEN [val |-> TrimSpace(field), errs |-> <<>>]
    ELSE [val |-> NA, errs |-> <<"bad float">>]

\* TN427Parser.ParseLine, the TSG group.
TN427TSG(tsgFields) ==
    IF Len(tsgFields) # 3 /\ Len(tsgFields) # 4
    THEN [vals |-> <<NA, NA, NA>>, errs |-> <<"bad TSG">>]
    ELSE [vals |-> <<TN427Float(tsgFields[1]).val,
                     TN427Float(tsgFields[2]).val,
                     TN427Float(tsgFields[3]).val>>,
          errs |-> TN427Float(tsgFields[1]).errs
                   \o TN427Float(tsgFields[2]).errs
                   \o TN427Float(tsgFields[3]).errs]

\* The PAR test of both parsers with the count of decimals left out.
DCParFloatAnyDecimals(parStr, parNumberFields) ==
    IF ~ParseFloat(parStr).ok
    THEN [ok |-> FALSE, val |-> NA, errs |-> <<"bad PAR float">>]
    ELSE [ok |-> TRUE, val |-> parStr, errs |-> <<>>]

\* The PAR test of both parsers: parStr is the trimmed text, and
\* parNumberFields the untrimmed text split at ".".
DCParFloat(parStr, parNumberFields) ==
    IF \/ ~ParseFloat(parStr).ok
       \/ Len(parNumberFields) # 2
       \/ Len(parNumberFields[2]) # 3
    THEN [ok |-> FALSE, val |-> NA, errs |-> <<"bad PAR float">>]
    ELSE [ok |-> TRUE, val |-> parStr, errs |-> <<>>]

\* TN427Parser.ParseLine, PAR: an empty group gives NA and an error, any
\* other group must pass the PAR test.
TN427Par(parField) ==
    IF parField = <<>>
    THEN [ok |-> TRUE, val |-> NA, errs |-> <<"bad PPAR">>]
    ELSE DCParFloat(TrimSpace(parField), SplitSep(parField, <<".">>))

\* ParseLine from "Parse time" on, given what each group yields: the first
\* failure returns the errors so far and no record; else the record is
\* populated and passed to Limit.
DCAssemble(p, t, ll, tsg, par) ==
    IF ~t.ok THEN [d |-> Data(0, FALSE, <<>>, <<"bad GPZDA">>), p |-> p]
    ELSE IF ~ll.ok THEN [d |-> Data(0, FALSE, <<>>, <<ll.err>>), p |-> p]
    ELSE IF ~par.ok
    THEN [d |-> Data(0, FALSE, <<>>, tsg.errs \o par.errs), p |-> p]
    ELSE [d |-> Limit(p.th, Data(t.t, FALSE,
                                 ll.vals \o tsg.vals \o <<par.val>>,
                                 tsg.errs \o par.errs)).d,
          p |-> [p EXCEPT !.th =
                    Limit(p.th, Data(t.t, FALSE,
                                     ll.vals \o tsg.vals \o <<par.val>>,
                                     tsg.errs \o par.errs)).th]]

SeaflowPrefix == <<"$", "S", "E", "A", "F", "L", "O", "W">>

\* TN427Parser.ParseLine on the groups of the trimmed line.
TN427Groups(p, clean, fields) ==
    IF ~HasPrefix(clean, SeaflowPrefix) \/ Len(fields) # 5
    THEN [d |-> EmptyData, p |-> p]
    ELSE DCAssemble(p, DCTime(SplitSep(fields[2], <<",">>)),
                    DCLatLon(SplitSep(fields[3], <<",">>)),
                    TN427TSG(SplitSep(fields[4], <<",">>)),
                    TN427Par(fields[5]))

TN427Clean(p, clean) == TN427Groups(p, clean, SplitSep(clean, <<":", ":">>))

\* NewTN427Parser: the parser is its embedded Throttle.
NewTN427Parser(interval) == [th |-> NewThrottle(interval)]

\* TN427Parser.ParseLine: the Data returned and the parser afterwards.
TN427ParseLine(p, line) ==
    IF Unterminated(line) THEN [d |-> EmptyData, p |-> p]
    ELSE TN427Clean(p, TrimSpace(SubSeq(line, 1, Len(line) - 1)))

\* TN448Parser, which the tests construct and the registry of the spec
\* names: the double-colon stanza parsed by the rules of TN427.
NewTN448Parser(interval) == NewTN427Parser(interval)
TN448ParseLine(p, line) == TN427ParseLine(p, line)

\* The groups the model composes stanzas from, each with what it is: a ZDA
\* group and whether it is a time (and which), a GGA group and whether it
\* has 15 fields that convert, a TSG group and the three columns it
\* stands for, a PAR group and whether it is empty, a float with three
\* decimals, or neither.
DCZDA ==
    << [s |-> <<"$", "G", "P", "Z", "D", "A", ",", "0", "0", "0", "0", "0", "1",
                 ".", "0", "0", ",", "0", "1", ",", "0", "1", ",", "2", "0", "0",
                 "0", ",", "0", "0", ",", "0", "0">>,
         ok |-> TRUE, t |-> 1],
       [s |-> <<"$", "G", "P", "Z", "D", "A", ",", "0", "0", "0", "0", "0", "2",
                 ".", "0", "0", ",", "0", "1", ",", "0", "1", ",", "2", "0", "0",
                 "0", ",", "0", "0", ",", "0", "0">>,
         ok |-> TRUE, t |-> 2],
       [s |-> <<"$", "G", "P", "Z", "D", "A", ",", "0", "0", "0", "0", "0", "1",
                 ".", "0", "0", ",", "3", "1", ",", "0", "2", ",", "2", "0", "0",
                 "0", ",", "0", "0", ",", "0", "0">>,
         ok |-> FALSE, t |-> 0],
       [s |-> <<"$", "G", "P", "Z", "D", "A", ",", "0", "0", "0", "0", "0", "1",
                 ".", "0", "0", ",", "0", "1", ",", "0", "1", ",", "2", "0", "0",
                 "0", ",", "0", "0">>,
         ok |-> FALSE, t |-> 0] >>

DCGGA ==
    << [s |-> <<"$", "G", "P", "G", "G", "A", ",", "0", ",", "2", "1", "1", "8",
                 ".", "9", "0", "4", "3", ",", "N", ",", "1", "5", "7", "5", "2",
                 ".", "6", "5", "2", "6", ",", "W", ",", "2", ",", "7", ",", "0",
                 ",", "2", ",", "M", ",", ",", "M", ",", ",", "*", "7">>,
         ok |-> TRUE],
       [s |-> <<"$", "G", "P", "G", "G", "A", ",", "0", ",", "2", "1", "9", "8",
                 ".", "9", "0", "4", "3", ",", "N", ",", "1", "5", "7", "5", "2",
                 ".", "6", "5", "2", "6", ",", "W", ",", "2", ",", "7", ",", "0",
                 ",", "2", ",", "M", ",", ",", "M", ",", ",", "*", "7">>,
         ok |-> FALSE],
       [s |-> <<"$", "G", "P", "G", "G", "A", ",", "0", ",", "2", "1", "1", "8",
                 ".", "9", "0", "4", "3", ",", "N", ",", "1", "5", "7", "5", "2",
                 ".", "6", "5", "2", "6", ",", "W", ",", "X", ",", "2", ",", "7",
                 ",", "0", ",", "2", ",", "M", ",", ",", "M", ",", ",", "*", "7">>,
         ok |-> FALSE] >>

DCLat == <<"2", "1", ".", "3", "1", "5", "1">>
DCLon == <<"-", "1", "5", "7", ".", "8", "7", "7", "5">>

DCTSG ==
    << [s |-> <<" ", "1", "2", ".", "3", ",", " ", " ", "3", ".", "6", ",", " ",
                 " ", "3", "1", ".", "2">>,
         cols |-> <<<<"1", "2", ".", "3">>, <<"3", ".", "6">>, <<"3", "1", ".", "2">>>>],
       [s |-> <<" ", "1", "2", ".", "3", ",", " ", " ", "3", ".", "6", ",", " ",
                 " ", "3", "1", ".", "2", ",", " ", "1", "5", "0", "1", ".", "5">>,
         cols |-> <<<<"1", "2", ".", "3">>, <<"3", ".", "6">>, <<"3", "1", ".", "2">>>>],
       [s |-> <<>>,
         cols |-> <<<<"N", "A">>, <<"N", "A">>, <<"N", "A">>>>],
       [s |-> <<" ", "1", "2", ".", "a", "3", ",", " ", " ", "3", ".", "6", ",",
                 " ", " ", "3", "1", ".", "2">>,
         cols |-> <<<<"N", "A">>, <<"3", ".", "6">>, <<"3", "1", ".", "2">>>>],
       [s |-> <<"1", "2", ".", "3", ",", "3", ".", "6">>,
         cols |-> <<<<"N", "A">>, <<"N", "A">>, <<"N", "A">>>>] >>

TNPAR ==
    << [s |-> <<>>,
         kind |-> "empty", val |-> <<"N", "A">>],
       [s |-> <<"1", "5", "7", ".", "5", "8", "0">>,
         kind |-> "good", val |-> <<"1", "5", "7", ".", "5", "8", "0">>],
       [s |-> <<"1", "5", "7", ".", "5", "8">>,
         kind |-> "bad", val |-> <<>>],
       [s |-> <<"1", "a", "7", ".", "5", "8", "0">>,
         kind |-> "bad", val |-> <<>>] >>

\* The line endings of the model's stanzas: LF, CR LF, or none.
DCEnds == <<<<LF>>, <<CR, LF>>, <<>>>>

\* The stanza composed of four groups and a line ending.
DCStanza(zda, gga, tsg, par, end) ==
    SeaflowPrefix \o <<":", ":">> \o zda \o <<":", ":">> \o gga
    \o <<":", ":">> \o tsg \o <<":", ":">> \o par \o end

\* Lines that are no five-group $SEAFLOW stanza: another sentence, a stanza
\* of four groups, one of six, a blank line, and the empty line.
DCOthers ==
    << <<"$", "G", "P", "D", "T", "M", ",", "W", "8", "4", LF>>,
       SeaflowPrefix \o <<":", ":", "a", ":", ":", "b", ":", ":", "c", LF>>,
       DCStanza(DCZDA[1].s, DCGGA[1].s, DCTSG[1].s,
                <<"1", ".", "0", "0", "0", ":", ":", "x">>, <<LF>>),
       <<LF>>,
       <<"$", "G", "P", "D", "T", "M">>,
       <<>> >>

TNIntervals == {0, 2}
TNParsers == {"TN427", "TN448"}

\* The inputs of the model: a stanza named by its groups and ending, or one
\* of the other lines.
TNStanzas ==
    [kind : {"stanza"}, z : DOMAIN DCZDA, g : DOMAIN DCGGA,
     t : DOMAIN DCTSG, p : DOMAIN TNPAR, end : {1}]
    \cup [kind : {"stanza"}, z : {1}, g : {1}, t : {1}, p : {1, 2},
          end : DOMAIN DCEnds]
TNOthers ==
    [kind : {"other"}, z : DOMAIN DCOthers, g : {1}, t : {1}, p : {1},
     end : {1}]

TNText(in) ==
    IF in.kind = "stanza"
    THEN DCStanza(DCZDA[in.z].s, DCGGA[in.g].s, DCTSG[in.t].s, TNPAR[in.p].s,
                  DCEnds[in.end])
    ELSE DCOthers[in.z]

\* The throttles a parser of the model can hold: stanza times are 1 and 2.
TNThrottles == [recent : 0 .. 2, interval : TNIntervals]

\* ParseLine of the parser named, on every throttle and input of the model,
\* written out as a table (f @@ <<>> is f with every value computed).
TNParsed ==
    [which \in TNParsers, t \in TNThrottles, in \in TNStanzas \cup TNOthers |->
        IF which = "TN427" THEN TN427ParseLine([th |-> t], TNText(in))
        ELSE TN448ParseLine([th |-> t], TNText(in))] @@ <<>>

TNStart(which, interval) ==
    [which |-> which,
     p |-> IF which = "TN427" THEN NewTN427Parser(interval)
           ELSE NewTN448Parser(interval),
     op |-> "new", in |-> [kind |-> "none"], before |-> NewThrottle(interval),
     d |-> EmptyData]

TNInit == \E which \in TNParsers, i \in TNIntervals : tn = TNStart(which, i)
TNIdle == tn = TNStart("TN427", 0)

\* One call of ParseLine.
TNCall(op, in) ==
    tn' = [tn EXCEPT !.op = op, !.in = in, !.before = tn.p.th,
                     !.p = TNParsed[tn.which, tn.p.th, in].p,
                     !.d = TNParsed[tn.which, tn.p.th, in].d]

\* ParseLine on a terminated stanza of five groups.
TNStanzaLine ==
    \E in \in TNStanzas : DCEnds[in.end] # <<>> /\ TNCall("stanza", in)

\* ParseLine on a terminated line that is no stanza of five groups.
TNOtherLine ==
    \E in \in TNOthers :
        EndsInLF(DCOthers[in.z]) /\ TNCall("other", in)

\* ParseLine on a line that is empty or has no LF at its end.
TNUnterminatedLine ==
    \E in \in TNStanzas \cup TNOthers :
        /\ IF in.kind = "stanza" THEN DCEnds[in.end] = <<>>
           ELSE ~EndsInLF(DCOthers[in.z])
        /\ TNCall("unterminated", in)

(***************************************************************************)
(* Gradients5Parser.  A run-time panic of ParseLine (an index out of       *)
(* range) ends the process: the result says so, and carries no Data.       *)
(***************************************************************************)
\* NewGradients5Parser: the parser is its embedded Throttle.
NewGradients5Parser(interval) == [th |-> NewThrottle(interval)]

\* Gradients5Parser.ParseLine, the TSG group: three NA unless the group has
\* four fields, and then no value at all (the columns are not read).
Gradients5TSG(tsgFields) ==
    IF Len(tsgFields) # 4
    THEN [vals |-> <<NA, NA, NA>>, errs |-> <<"bad TSG">>]
    ELSE [vals |-> <<>>, errs |-> <<>>]

\* Gradients5Parser.ParseLine, PAR: parFields[1] is read whatever the
\* number of fields, which panics when there is one field only.
Gradients5Par(parFields) ==
    IF Len(parFields) < 2
    THEN [panic |-> TRUE, ok |-> FALSE, val |-> NA, errs |-> <<"bad PPAR">>]
    ELSE [panic |-> FALSE,
          ok |-> DCParFloat(TrimSpace(parFields[2]),
                            SplitSep(parFields[2], <<".">>)).ok,
          val |-> DCParFloat(TrimSpace(parFields[2]),
                             SplitSep(parFields[2], <<".">>)).val,
          errs |-> DCParFloat(TrimSpace(parFields[2]),
                              SplitSep(parFields[2], <<".">>)).errs]

\* ParseLine from "Parse time" on, given what each group yields: the Data
\* is populated only if six values were set.
Gradients5Assemble(p, t, ll, tsg, par) ==
    IF ~t.ok
    THEN [d |-> Data(0, FALSE, <<>>, <<"bad GPZDA">>), p |-> p,
          panic |-> FALSE]
    ELSE IF ~ll.ok
    THEN [d |-> Data(0, FALSE, <<>>, <<ll.err>>), p |-> p, panic |-> FALSE]
    ELSE IF par.panic THEN [d |-> EmptyData, p |-> p, panic |-> TRUE]
    ELSE IF ~par.ok
    THEN [d |-> Data(0, FALSE, <<>>, tsg.errs \o par.errs), p |-> p,
          panic |-> FALSE]
    ELSE IF Len(ll.vals \o tsg.vals \o <<par.val>>) # 6
    THEN [d |-> Data(0, FALSE, <<>>, tsg.errs), p |-> p, panic |-> FALSE]
    ELSE [d |-> Limit(p.th, Data(t.t, FALSE,
                                 ll.vals \o tsg.vals \o <<par.val>>,
                                 tsg.errs)).d,
          p |-> [p EXCEPT !.th =
                    Limit(p.th, Data(t.t, FALSE,
                                     ll.vals \o tsg.vals \o <<par.val>>,
                                     tsg.errs)).th],
          panic |-> FALSE]

\* Gradients5Parser.ParseLine on the groups of the trimmed line.
Gradients5Groups(p, clean, fields) ==
    IF ~HasPrefix(clean, SeaflowPrefix) \/ Len(fields) # 5
    THEN [d |-> EmptyData, p |-> p, panic |-> FALSE]
    ELSE Gradients5Assemble(p, DCTime(SplitSep(fields[2], <<",">>)),
                            DCLatLon(SplitSep(fields[3], <<",">>)),
                            Gradients5TSG(SplitSep(fields[4], <<",">>)),
                            Gradients5Par(SplitSep(fields[5], <<",">>)))

\* Gradients5Parser.ParseLine: no test of the line's ending.
Gradients5ParseLine(p, line) ==
    Gradients5Groups(p, TrimSpace(line),
                     SplitSep(TrimSpace(line), <<":", ":">>))

\* The PAR groups of the model, each with what it is: empty, a $PPAR
\* sentence whose value has three decimals, one whose value has two, and
\* a $PPAR sentence of one field.
G5PAR ==
    << [s |-> <<>>,
         kind |-> "empty", val |-> <<"N", "A">>],
       [s |-> <<"$", "P", "P", "A", "R", ",", " ", "1", "5", "7", ".", "5", "8",
                 "0", ",", " ", "6", ".", "1", "0", ",", " ", "5">>,
         kind |-> "good", val |-> <<"1", "5", "7", ".", "5", "8", "0">>],
       [s |-> <<"$", "P", "P", "A", "R", ",", " ", "1", "5", "7", ".", "5", "8",
                 ",", " ", "6", ".", "1", "0", ",", " ", "5">>,
         kind |-> "bad", val |-> <<>>],
       [s |-> <<"$", "P", "P", "A", "R">>,
         kind |-> "short", val |-> <<>>] >>

G5Intervals == {0, 2}

\* The inputs of the model: a stanza named by its groups and ending, or one
\* of the other lines.
G5Stanzas ==
    [kind : {"stanza"}, z : DOMAIN DCZDA, g : DOMAIN DCGGA,
     t : DOMAIN DCTSG, p : DOMAIN G5PAR, end : {1}]
    \cup [kind : {"stanza"}, z : {1}, g : {1}, t : {1, 2}, p : {1, 2},
          end : DOMAIN DCEnds]

G5Text(in) ==
    IF in.kind = "stanza"
    THEN DCStanza(DCZDA[in.z].s, DCGGA[in.g].s, DCTSG[in.t].s, G5PAR[in.p].s,
                  DCEnds[in.end])
    ELSE DCOthers[in.z]

\* ParseLine on every throttle and input of the model, written out as a
\* table.
G5Parsed ==
    [t \in TNThrottles, in \in G5Stanzas \cup TNOthers |->
        Gradients5ParseLine([th |-> t], G5Text(in))] @@ <<>>

G5Start(interval) ==
    [p |-> NewGradients5Parser(interval), op |-> "new",
     in |-> [kind |-> "none"], d |-> EmptyData, panicked |-> FALSE]

G5Init == \E i \in G5Intervals : g5 = G5Start(i)
G5Idle == g5 = G5Start(0)

\* One call of ParseLine; none after a panic.
G5Call(op, in) ==
    /\ ~g5.panicked
    /\ g5' = [g5 EXCEPT !.op = op, !.in = in,
                        !.p = G5Parsed[g5.p.th, in].p,
                        !.d = G5Parsed[g5.p.th, in].d,
                        !.panicked = G5Parsed[g5.p.th, in].panic]

\* ParseLine on a stanza of five groups.
G5StanzaLine == \E in \in G5Stanzas : G5Call("stanza", in)

\* ParseLine on a line that is no stanza of five groups.
G5OtherLine == \E in \in TNOthers : G5Call("other", in)

(***************************************************************************)
(* TARAParser: one record for each $GPRMC sentence.                        *)
(***************************************************************************)
TARAHeaders == <<"time", "lat", "lon">>

\* make(map[string]string): the map with no key.
NoValues == [k \in {} |-> <<>>]

\* NewTARAParser
NewTARAParser(interval) ==
    [th |-> NewThrottle(interval), t |-> 0, values |-> NoValues,
     errors |-> <<>>]

\* parseGPRMC without the comparison of the composed date with its
\* components.
TARADateUnchecked(y, mo, d, h, mi, s) ==
    [ok |-> TRUE, t |-> Instant(y, mo, d, h, mi, s)]

\* parseGPRMC, time.Date and the two comparisons: time.Date carries a
\* component out of its range over into the next one, so the composed date
\* has the components given exactly when each is in its range.
TARADate(y, mo, d, h, mi, s) ==
    IF InRange(y, mo, d, h, mi, s)
    THEN [ok |-> TRUE, t |-> Instant(y, mo, d, h, mi, s)]
    ELSE [ok |-> FALSE, t |-> 0]

\* parseGPRMC, the loop of strconv.Atoi over dateFields and what follows.
TARADateTime(dateFields) ==
    IF \E i \in 1 .. 6 : ~Atoi(dateFields[i]).ok THEN [ok |-> FALSE, t |-> 0]
    ELSE TARADate(Atoi(dateFields[1]).val, Atoi(dateFields[2]).val,
                  Atoi(dateFields[3]).val, Atoi(dateFields[4]).val,
                  Atoi(dateFields[5]).val, Atoi(dateFields[6]).val)

\* parseGPRMC from the loop over dateFields on: the parser afterwards, and
\* whether an error is returned.
parseGPRMCDated(p, lat, lon, date) ==
    IF ~date.ok THEN [err |-> TRUE, p |-> p]
    ELSE [err |-> FALSE,
          p |-> [p EXCEPT
                    !.values = ("lat" :> lat.dd) @@ ("lon" :> lon.dd),
                    !.t = date.t]]

\* parseGPRMC after the conversions of latitude and longitude.
parseGPRMCConverted(p, lat, lon, fields) ==
    IF ~lat.ok \/ ~lon.ok THEN [err |-> TRUE, p |-> p]
    ELSE IF Len(fields[10]) # 6 \/ Len(fields[2]) # 6
    THEN [err |-> TRUE, p |-> p]
    ELSE parseGPRMCDated(p, lat, lon,
             TARADateTime(<<<<"2", "0">> \o SubSeq(fields[10], 5, 6),
                            SubSeq(fields[10], 3, 4),
                            SubSeq(fields[10], 1, 2),
                            SubSeq(fields[2], 1, 2),
                            SubSeq(fields[2], 3, 4),
                            SubSeq(fields[2], 5, 6)>>))

\* TARAParser.parseGPRMC
parseGPRMC(p, fields) ==
    IF Len(fields) < 13 THEN [err |-> TRUE, p |-> p]
    ELSE parseGPRMCConverted(p, GGALat2DD(fields[4], fields[5]),
                             GGALon2DD(fields[6], fields[7]), fields)

\* createData, the record before Limit: NA for a column not in the map.
TARARecord(p) ==
    Data(p.t, FALSE,
         [i \in 1 .. Len(TARAHeaders) - 1 |->
            IF TARAHeaders[i + 1] \in DOMAIN p.values
            THEN p.values[TARAHeaders[i + 1]] ELSE NA],
         p.errors)

\* TARAParser.createData: the Data, and the parser with its throttle
\* after Limit.
createDataLimited(p, r) == [d |-> r.d, p |-> [p EXCEPT !.th = r.th]]

createData(p) == createDataLimited(p, Limit(p.th, TARARecord(p)))

\* TARAParser.reset
TARAReset(p) == [p EXCEPT !.t = 0, !.values = NoValues, !.errors = <<>>]

\* ParseLine on a $GPRMC sentence, from createData on.
TARACreated(c) == [d |-> c.d, p |-> TARAReset(c.p)]

\* ParseLine on a $GPRMC sentence, r being what parseGPRMC returned.
TARAAfterGPRMC(r) ==
    TARACreated(createData(IF r.err
                           THEN [r.p EXCEPT
                                    !.errors = Append(@, "bad GPRMC")]
                           ELSE r.p))

GPRMCPrefix == <<"$", "G", "P", "R", "M", "C">>

\* TARAParser.ParseLine: the Data returned and the parser afterwards.
TARAParseLine(p, line) ==
    IF Unterminated(line) THEN [d |-> EmptyData, p |-> p]
    ELSE IF HasPrefix(SubSeq(line, 1, Len(line) - 1), GPRMCPrefix)
    THEN TARAAfterGPRMC(
             parseGPRMC(p, SplitSep(SubSeq(line, 1, Len(line) - 1), <<",">>)))
    ELSE [d |-> EmptyData, p |-> p]

\* The fields the model composes $GPRMC sentences from, each with what it
\* is: a time of day and a date (and whether each is one), a latitude and
\* a longitude (and whether each converts), and the fields after the date,
\* which make 13 fields or 12.
TATimes ==
    << [s |-> <<"0", "0", "0", "0", "0", "1">>, ok |-> TRUE, t |-> 1],
       [s |-> <<"0", "0", "0", "0", "0", "2">>, ok |-> TRUE, t |-> 2],
       [s |-> <<"0", "0", "0", "0", "a", "1">>, ok |-> FALSE, t |-> 0],
       [s |-> <<"0", "0", "0", "0", "1">>, ok |-> FALSE, t |-> 0],
       [s |-> <<"0", "0", "0", "0", "6", "1">>, ok |-> FALSE, t |-> 0] >>

TADates ==
    << [s |-> <<"0", "1", "0", "1", "0", "0">>, ok |-> TRUE],
       [s |-> <<"3", "2", "0", "1", "0", "0">>, ok |-> FALSE],
       [s |-> <<"3", "0", "0", "2", "0", "0">>, ok |-> FALSE],
       [s |-> <<"0", "1", "0", "1">>, ok |-> FALSE] >>

TALats ==
    << [s |-> <<"2", "1", "1", "8", ".", "9", "0", "4", "3", ",", "N">>,
        ok |-> TRUE],
       [s |-> <<"2", "1", "9", "8", ".", "9", "0", "4", "3", ",", "N">>,
        ok |-> FALSE] >>

TALons ==
    << [s |-> <<"1", "5", "7", "5", "2", ".", "6", "5", "2", "6", ",", "W">>,
        ok |-> TRUE],
       [s |-> <<"1", "5", "7", "5", "2", ".", "6", "5", "2", "6", ",", "D">>,
        ok |-> FALSE] >>

TATails ==
    << [s |-> <<",", "0", ".", "2", ",", "W", ",", "D", "*", "1", "9">>,
        ok |-> TRUE],
       [s |-> <<",", "0", ".", "2", ",", "W">>,
        ok |-> FALSE] >>

\* What a sentence starts with: $GPRMC, another sentence, a blank before
\* $GPRMC.
TAHeads ==
    << GPRMCPrefix, <<"$", "G", "P", "G", "G", "A">>, <<" ">> \o GPRMCPrefix >>

TASentence(head, tm, dt, la, lo, tail, end) ==
    head \o <<",">> \o tm \o <<",", "A", ",">> \o la \o <<",">> \o lo
    \o <<",", "0", ".", "0", ",", "1", "8", "2", ".", "6", ",">> \o dt
    \o tail \o end

\* The inputs of the model: a sentence named by its fields, head and
\* ending; every combination of fields for a terminated $GPRMC sentence
\* of 13 fields, and one valid and one invalid sentence for every head,
\* count of fields and ending.
TASentences ==
    [head : {1}, tm : DOMAIN TATimes, dt : DOMAIN TADates,
     la : DOMAIN TALats, lo : DOMAIN TALons, tail : {1}, end : {1}]
    \cup [head : DOMAIN TAHeads, tm : {1, 2}, dt : {1, 2}, la : {1},
          lo : {1}, tail : DOMAIN TATails, end : DOMAIN DCEnds]

TAText(in) ==
    TASentence(TAHeads[in.head], TATimes[in.tm].s, TADates[in.dt].s,
               TALats[in.la].s, TALons[in.lo].s, TATails[in.tail].s,
               DCEnds[in.end])

TAIntervals == {0, 2}

TAStart(interval) ==
    [p |-> NewTARAParser(interval), op |-> "new", in |-> <<>>,
     before |-> NewTARAParser(interval), d |-> EmptyData]

TAInit == \E i \in TAIntervals : ta = TAStart(i)
TAIdle == ta = TAStart(0)

\* One call of ParseLine, r being what it returns.
TAReturned(op, in, r) ==
    ta' = [ta EXCEPT !.op = op, !.in = in, !.before = ta.p,
                     !.p = r.p, !.d = r.d]

\* The parsers ParseLine is called on: any throttle of the model, and no
\* time, value or error held.
TAParsers ==
    [th : TNThrottles, t : {0}, values : {NoValues}, errors : {<<>>}]

TALines == {TAText(in) : in \in TASentences} \cup {<<>>, <<LF>>}

\* ParseLine on every parser and line of the model, written out as a
\* table.
TAParsed ==
    [p \in TAParsers, line \in TALines |-> TARAParseLine(p, line)] @@ <<>>

TACall(op, in, line) == TAReturned(op, in, TAParsed[ta.p, line])

\* ParseLine on a terminated $GPRMC sentence.
TAGPRMCLine ==
    \E in \in TASentences :
        /\ in.head = 1 /\ DCEnds[in.end] # <<>>
        /\ TACall("gprmc", in, TAText(in))

\* ParseLine on a terminated line that is no $GPRMC sentence.
TAOtherLine ==
    \/ \E in \in TASentences :
        /\ in.head # 1 /\ DCEnds[in.end] # <<>>
        /\ TACall("other", in, TAText(in))
    \/ TACall("other", <<LF>>, <<LF>>)

\* ParseLine on a line that is empty or has no LF at its end.
TAUnterminatedLine ==
    \/ \E in \in TASentences :
        /\ DCEnds[in.end] = <<>>
        /\ TACall("unterminated", in, TAText(in))
    \/ TACall("unterminated", <<>>, <<>>)

(***************************************************************************)
(* DiskStorage.Flush and DiskStorage.Close over several open feeds.  Go    *)
(* ranges over the maps out and files in an order of its own choosing, and *)
(* any Flush of a bufio.Writer and any Close of a file may fail; the error *)
(* of a call is named by the call, <<"flush", feed>> or <<"close", feed>>, *)
(* and nil is the empty tuple.                                             *)
(***************************************************************************)
Nil == <<>>

\* The error left by a loop that keeps the error of every failing call:
\* calls in order, failed the set of calls that fail, err the error so far.
RECURSIVE LastError(_, _, _)
LastError(calls, failed, err) ==
    IF calls = <<>> THEN err
    ELSE LastError(Tail(calls), failed,
                   IF calls[1] \in failed THEN calls[1] ELSE err)

\* The calls a loop makes that returns at the first failing call.
RECURSIVE UntilError(_, _)
UntilError(calls, failed) ==
    IF calls = <<>> THEN <<>>
    ELSE IF calls[1] \in failed THEN <<calls[1]>>
    ELSE <<calls[1]>> \o UntilError(Tail(calls), failed)

\* Flush that returns at the first writer that fails.
DiskStorageFlushStopsAtError(outs, failed) ==
    LET calls == UntilError([i \in 1 .. Len(outs) |-> <<"flush", outs[i]>>],
                            failed)
    IN  [calls |-> calls, err |-> LastError(calls, failed, Nil)]

\* DiskStorage.Flush: outs is the order in which the range over store.out
\* yields the feeds; the calls made and the error returned.
DiskStorageFlush(outs, failed) ==
    LET calls == [i \in 1 .. Len(outs) |-> <<"flush", outs[i]>>]
    IN  [calls |-> calls, err |-> LastError(calls, failed, Nil)]

\* DiskStorage.Close: Flush, then the range over store.files in the order
\* files.
DiskStorageClose(outs, files, failed) ==
    LET flushed == DiskStorageFlush(outs, failed)
        calls == [i \in 1 .. Len(files) |-> <<"close", files[i]>>]
    IN  [calls |-> flushed.calls \o calls,
         err |-> LastError(calls, failed, flushed.err)]

\* The feeds a store may have open, and the orders a range over a map with
\* the keys S may take.
FCFeeds == {"geo", "raw", "log"}
Orders(S) ==
    {o \in [1 .. Cardinality(S) -> S] :
        \A i, j \in 1 .. Cardinality(S) : o[i] = o[j] => i = j}
FCCalls(S) == {<<"flush", f>> : f \in S} \cup {<<"close", f>> : f \in S}

\* A store with some feeds open and no call made yet.
FCStart(open) ==
    [open |-> open, op |-> "new", failed |-> {}, calls |-> <<>>,
     err |-> Nil]

FCInit == \E open \in SUBSET FCFeeds : fc = FCStart(open)

FCIdle == fc = FCStart({})

\* One call of Flush on a store not yet closed; failed are the writers
\* whose Flush fails.
FCFlush ==
    \E outs \in Orders(fc.open), bad \in SUBSET fc.open :
        LET failed == {<<"flush", f>> : f \in bad}
            r == DiskStorageFlush(outs, failed)
        IN  /\ fc.op # "Close"
            /\ fc' = [fc EXCEPT !.op = "Flush", !.failed = failed,
                             !.calls = r.calls, !.err = r.err]

\* The one call of Close; failed are the flushes and the closes that fail.
FCClose ==
    \E outs \in Orders(fc.open), files \in Orders(fc.open),
       failed \in SUBSET FCCalls(fc.open) :
        LET r == DiskStorageClose(outs, files, failed)
        IN  /\ fc.op # "Close"
            /\ fc' = [fc EXCEPT !.op = "Close", !.failed = failed,
                             !.calls = r.calls, !.err = r.err]

(***************************************************************************)
(* The multi-feed Throttle: recent is a map from feed names to instants,   *)
(* and a Data carries the name of its feed.                                *)
(***************************************************************************)
\* NewThrottle of the multi-feed Throttle.
NewFeedThrottle(interval) ==
    [recent |-> <<>>, interval |-> IF interval < 0 THEN 0 ELSE interval]

\* The loop of Recent("") over the map, feeds being the order in which the
\* range yields its keys and t the instant so far.
RECURSIVE RecentLoop(_, _, _)
RecentLoop(recent, feeds, t) ==
    IF feeds = <<>> THEN t
    ELSE RecentLoop(recent, Tail(feeds),
                    IF t < recent[feeds[1]] THEN recent[feeds[1]] ELSE t)

\* Recent that answers every query with the latest instant of all feeds.
FeedRecentOfAll(t, feed, feeds) == RecentLoop(t.recent, feeds, 0)

\* Throttle.Recent(feed); feeds is the order of the range over the map.
FeedRecent(t, feed, feeds) ==
    IF feed = "" THEN RecentLoop(t.recent, feeds, 0)
    ELSE IF feed \in DOMAIN t.recent THEN t.recent[feed]
    ELSE 0

\* th.recent[feed] = when
SetRecent(t, feed, when) ==
    [t EXCEPT !.recent =
        [f \in DOMAIN t.recent \cup {feed} |->
            IF f = feed THEN when ELSE t.recent[f]]]

\* Throttle.Limit of the multi-feed Throttle on a Data with a feed, a time
\* and Throttled false: the throttle and the Data after the call.
FeedLimit(t, d, feeds) ==
    IF d.Feed = "" THEN [th |-> t, d |-> d]
    ELSE LET feedt == FeedRecent(t, d.Feed, feeds)
             diff == Sub(d.Time, feedt)
         IN  IF feedt = 0 THEN [th |-> SetRecent(t, d.Feed, d.Time), d |-> d]
             ELSE IF diff >= 0 /\ diff < t.interval
             THEN [th |-> t, d |-> [d EXCEPT !.Throttled = TRUE]]
             ELSE [th |-> SetRecent(t, d.Feed, d.Time), d |-> d]

\* The feeds, times and intervals of the model.
MTFeeds == {"feed1", "feed2"}
MaxFeedTime == 3
MTTimes == 0 .. MaxFeedTime
MTIntervals == {0, 2}

MTStart(interval) ==
    [t |-> NewFeedThrottle(interval), op |-> "new", before |-> <<>>,
     d |-> [Feed |-> "", Time |-> 0, Throttled |-> FALSE],
     feed |-> "", r |-> 0]

MTInit == \E i \in MTIntervals : mt = MTStart(i)

MTIdle == mt = MTStart(0)

\* One call of Limit, on a Data of a feed or of no feed.
MTLimit ==
    \E feed \in MTFeeds \cup {""}, when \in MTTimes,
       feeds \in Orders(DOMAIN mt.t.recent) :
        LET r == FeedLimit(mt.t,
                           [Feed |-> feed, Time |-> when, Throttled |-> FALSE],
                           feeds)
        IN  mt' = [mt EXCEPT !.t = r.th, !.op = "Limit",
                             !.before = mt.t.recent, !.d = r.d,
                             !.feed = feed, !.r = 0]

\* One call of Recent, for a feed, for a name never seen, or for "".
MTRecent ==
    \E feed \in MTFeeds \cup {"", "unknownFeed"},
       feeds \in Orders(DOMAIN mt.t.recent) :
        mt' = [mt EXCEPT !.op = "Recent", !.before = mt.t.recent,
                         !.feed = feed,
                         !.r = FeedRecent(mt.t, feed, feeds)]

(***************************************************************************)
(* The mirror goroutine of UDP mode with -copy: at every tick it locks the *)
(* mutex, copies each feed file to the copy directory and unlocks.  main   *)
(* and the signal handler close the storer under the same mutex.           *)
(***************************************************************************)
\* Most passes begun in a run.
MaxPasses == 2

\* The feeds of feedHeaders with -raw.
CPFeeds == {"geo", "raw"}
\* What the copy of one feed may come to.
CPOutcomes == {"copied", "rel error", "mkdir error", "copy error"}
CPClosers == {"main", "sig"}

\* A pass that gives up at the first error, the mutex still locked.
CopyFeedReturnsOnError(left, feed, outcome) ==
    IF outcome = "copied" THEN [pc |-> "pass", left |-> left \ {feed}]
    ELSE [pc |-> "gone", left |-> {}]

\* One round of the loop over feedHeaders: an error is logged and the loop
\* goes on with the next feed.
CopyFeed(left, feed, outcome) == [pc |-> "pass", left |-> left \ {feed}]

CPStart ==
    [mut |-> "free",
     pc |-> [c \in CPClosers \cup {"copier"} |->
                CASE c = "main" -> "run" [] c = "sig" -> "wait"
                  [] c = "copier" -> "idle"],
     left |-> {}, passes |-> 0, errors |-> 0, op |-> "start", actor |-> "",
     signalled |-> FALSE, sigInPass |-> FALSE, closed |-> 0, exited |-> -1]

CPIdle == cp = CPStart

CPRunning == cp.exited = -1

\* The ticker fires: the mirror goroutine goes for the mutex.
CPTick ==
    /\ CPRunning
    /\ cp.pc["copier"] = "idle"
    /\ cp.passes < MaxPasses
    /\ cp' = [cp EXCEPT !.pc["copier"] = "lock", !.op = "tick",
                        !.actor = "copier"]

\* mut.Lock of the mirror goroutine: the pass begins.
CPPassBegins ==
    /\ CPRunning
    /\ cp.pc["copier"] = "lock"
    /\ cp.mut = "free"
    /\ cp' = [cp EXCEPT !.mut = "copier", !.pc["copier"] = "pass",
                        !.left = CPFeeds, !.passes = cp.passes + 1,
                        !.op = "pass begins", !.actor = "copier"]

\* One feed of the pass, in the order the range yields them.
CPCopyFeed ==
    /\ CPRunning
    /\ cp.pc["copier"] = "pass"
    /\ \E feed \in cp.left, outcome \in CPOutcomes :
        LET r == CopyFeed(cp.left, feed, outcome)
        IN  cp' = [cp EXCEPT !.pc["copier"] = r.pc, !.left = r.left,
                            !.errors = IF outcome = "copied" THEN cp.errors
                                       ELSE Min(cp.errors + 1, 1),
                            !.op = "copy", !.actor = "copier"]

\* The loop over the feeds is through: mut.Unlock.
CPPassEnds ==
    /\ CPRunning
    /\ cp.pc["copier"] = "pass"
    /\ cp.left = {}
    /\ cp' = [cp EXCEPT !.mut = "free", !.pc["copier"] = "idle",
                        !.op = "pass ends", !.actor = "copier"]

\* SIGINT or SIGTERM arrives; sigInPass is whether a pass was under way.
CPSignal ==
    /\ CPRunning
    /\ cp.pc["sig"] = "wait"
    /\ cp' = [cp EXCEPT !.pc["sig"] = "lock", !.signalled = TRUE,
                        !.sigInPass = (cp.pc["copier"] = "pass"),
                        !.op = "signal", !.actor = "sig"]

\* The readers are done: main goes for the mutex.
CPMainDone ==
    /\ CPRunning
    /\ cp.pc["main"] = "run"
    /\ cp' = [cp EXCEPT !.pc["main"] = "lock", !.op = "readers done",
                        !.actor = "main"]

\* mut.Lock of a closer, and storer.Close begins.
CPLock(c) ==
    /\ CPRunning
    /\ cp.pc[c] = "lock"
    /\ cp.mut = "free"
    /\ cp' = [cp EXCEPT !.mut = c, !.pc[c] = "closing", !.op = "Close",
                        !.actor = c]

\* storer.Close ends, with an error or without, and mut.Unlock.
CPCloseDone(c) ==
    /\ CPRunning
    /\ cp.pc[c] = "closing"
    /\ cp' = [cp EXCEPT !.mut = "free", !.pc[c] = "exit",
                        !.closed = cp.closed + 1, !.op = "Close done",
                        !.actor = c]

\* os.Exit
CPExit(c) ==
    /\ CPRunning
    /\ cp.pc[c] = "exit"
    /\ cp' = [cp EXCEPT !.exited = IF c = "sig" THEN 1 ELSE 0,
                        !.op = "exit", !.actor = c]

(***************************************************************************)
(* Datagrams parsed live, each by its own ParseLines, and the same         *)
(* datagrams stored as envelopes in the raw feed and parsed again by one   *)
(* ParseLines over NewRawUDPReader (-wrapped).  The storer does not fail.  *)
(***************************************************************************)
\* Most datagrams received before the replay.
MaxReplayed == 2

\* The datagrams: whole lines, a line cut before its LF, a line cut
\* between CR and LF, its rest, and an empty datagram.
RPPayloads == { <<"a", LF>>, <<"a", LF, "a", LF>>, <<"a">>, <<"a", CR>>,
                <<LF>>, <<>> }
\* Bytes the file of the raw feed hands over per Read.
RPChunks == {6, MaxScanTokenSize}

\* The line as ParseLines hands it to ParseLine.
CleanedLine(b, noCleanFlag) == IF noCleanFlag THEN b ELSE Whitelist(b)

\* The lines one ParseLines hands to ParseLine, its scanner s reading from
\* a strings.Reader.
RECURSIVE ParsedLines(_, _)
ParsedLines(s, noCleanFlag) ==
    LET sc == Scan(s)
    IN  IF sc.ok
        THEN <<CleanedLine(sc.s.token, noCleanFlag)>>
                \o ParsedLines(sc.s, noCleanFlag)
        ELSE <<>>

\* strings.NewReader(string(data)): a Read gives all that fits.
StringsNewReader(data) == NewReader(data, MaxScanTokenSize, FALSE)

\* Scanner.Scan of the line scanner of ParseLines when its reader is a
\* RawUDPReader.
RECURSIVE ScanWrapped(_)
ScanWrapped(s) ==
    LET atEOF == s.err # "nil"
        r == IF Len(s.buf) > 0 \/ atEOF THEN scanLinesWithLF(s.buf, atEOF)
             ELSE MoreData
        rest == SubSeq(s.buf, r.advance + 1, Len(s.buf))
        rd == Read(s.r, MaxScanTokenSize - Len(rest))
    IN  IF r.some
        THEN [s |-> [s EXCEPT !.buf = rest, !.token = r.token], ok |-> TRUE]
        ELSE IF atEOF
        THEN [s |-> [s EXCEPT !.buf = <<>>, !.token = <<>>], ok |-> FALSE]
        ELSE IF Len(rest) >= MaxScanTokenSize
        THEN [s |-> [s EXCEPT !.buf = rest, !.err = "ErrTooLong",
                              !.token = <<>>],
              ok |-> FALSE]
        ELSE ScanWrapped([s EXCEPT !.buf = rest \o rd.p, !.r = rd.r,
                                   !.err = rd.err])

\* bufio.NewScanner over NewRawUDPReader over the stored bytes.
NewWrappedScanner(stored, chunk) ==
    [r |-> NewRawUDPReader(NewReader(stored, chunk, FALSE)),
     buf |-> <<>>, err |-> "nil", token |-> <<>>]

RPStart(datagrams, noCleanFlag) ==
    [datagrams |-> datagrams, noCleanFlag |-> noCleanFlag, pc |-> "udp",
     received |-> 0, stored |-> <<>>, live |-> <<>>,
     s |-> NewWrappedScanner(<<>>, 1), replay |-> <<>>]

RPInit ==
    \E datagrams \in SeqsUpTo(RPPayloads, MaxReplayed),
       noCleanFlag \in BOOLEAN :
        rp = RPStart(datagrams, noCleanFlag)

RPIdle == rp = RPStart(<<>>, FALSE)

\* The consumer takes a datagram: its envelope goes to the raw feed and
\* its lines are parsed.
RPDatagram ==
    /\ rp.pc = "udp"
    /\ rp.received < Len(rp.datagrams)
    /\ LET data == rp.datagrams[rp.received + 1]
       IN  rp' = [rp EXCEPT
                 !.received = rp.received + 1,
                 !.stored = rp.stored
                              \o WrapUDPPayload(rp.received + 1, data),
                 !.live = rp.live \o ParsedLines(
                             NewScanner(StringsNewReader(data),
                                        "scanLinesWithLF"),
                             rp.noCleanFlag)]

\* The raw feed is given to a run with -wrapped on its standard input.
RPReplay ==
    /\ rp.pc = "udp"
    /\ rp.received = Len(rp.datagrams)
    /\ \E chunk \in RPChunks :
        rp' = [rp EXCEPT !.pc = "replay",
                         !.s = NewWrappedScanner(rp.stored, chunk)]

\* One pass of the loop of ParseLines in the replay, or its end.
RPScan ==
    /\ rp.pc = "replay"
    /\ LET sc == ScanWrapped(rp.s)
       IN  rp' = [rp EXCEPT
                 !.s = sc.s,
                 !.pc = IF sc.ok THEN "replay" ELSE "done",
                 !.replay = IF sc.ok
                            THEN Append(rp.replay,
                                        CleanedLine(sc.s.token,
                                                    rp.noCleanFlag))
                            ELSE rp.replay]

(***************************************************************************)
(* Specifications.                                                         *)
(***************************************************************************)
InitThrottle ==
    ThInit /\ DMIdle /\ G4Idle /\ KMIdle /\ PLIdle /\ RUIdle /\ STIdle
    /\ MNIdle /\ TNIdle /\ TAIdle /\ G5Idle /\ GeoIdle /\ FCIdle /\ WLIdle
    /\ MTIdle /\ CPIdle /\ RPIdle
NextThrottle == ThLimit /\ UNCHANGED <<dm, g4, km, pl, ru, st, mn, tn, ta, g5, ge, fc, wl, mt, cp, rp>>
SpecThrottle == InitThrottle /\ [][NextThrottle]_vars

InitDM == ThIdle /\ DMInit /\ G4Idle /\ KMIdle /\ PLIdle /\ RUIdle /\ STIdle
    /\ MNIdle /\ TNIdle /\ TAIdle /\ G5Idle /\ GeoIdle /\ FCIdle /\ WLIdle
    /\ MTIdle /\ CPIdle /\ RPIdle
NextDM ==
    /\ DMSetTime \/ DMAddValue \/ DMAddError \/ DMGetData
    /\ UNCHANGED <<th, g4, km, pl, ru, st, mn, tn, ta, g5, ge, fc, wl, mt, cp, rp>>
SpecDM == InitDM /\ [][NextDM]_vars

InitG4 == ThIdle /\ DMIdle /\ G4Init /\ KMIdle /\ PLIdle /\ RUIdle /\ STIdle
    /\ MNIdle /\ TNIdle /\ TAIdle /\ G5Idle /\ GeoIdle /\ FCIdle /\ WLIdle
    /\ MTIdle /\ CPIdle /\ RPIdle
NextG4 ==
    /\ G4Delimiter \/ G4Line \/ G4Unterminated
    /\ UNCHANGED <<th, dm, km, pl, ru, st, mn, tn, ta, g5, ge, fc, wl, mt, cp, rp>>
SpecG4 == InitG4 /\ [][NextG4]_vars

InitKM == ThIdle /\ DMIdle /\ G4Idle /\ KMInit /\ PLIdle /\ RUIdle /\ STIdle
    /\ MNIdle /\ TNIdle /\ TAIdle /\ G5Idle /\ GeoIdle /\ FCIdle /\ WLIdle
    /\ MTIdle /\ CPIdle /\ RPIdle
NextKM ==
    /\ KMBar1 \/ KMLine \/ KMUnterminated
    /\ UNCHANGED <<th, dm, g4, pl, ru, st, mn, tn, ta, g5, ge, fc, wl, mt, cp, rp>>
SpecKM == InitKM /\ [][NextKM]_vars

InitPL == ThIdle /\ DMIdle /\ G4Idle /\ KMIdle /\ PLInit /\ RUIdle /\ STIdle
    /\ MNIdle /\ TNIdle /\ TAIdle /\ G5Idle /\ GeoIdle /\ FCIdle /\ WLIdle
    /\ MTIdle /\ CPIdle /\ RPIdle
NextPL ==
    /\ PLLine \/ PLReturn
    /\ UNCHANGED <<th, dm, g4, km, ru, st, mn, tn, ta, g5, ge, fc, wl, mt, cp, rp>>
SpecPL == InitPL /\ [][NextPL]_vars

InitRU == ThIdle /\ DMIdle /\ G4Idle /\ KMIdle /\ PLIdle /\ RUInit /\ STIdle
    /\ MNIdle /\ TNIdle /\ TAIdle /\ G5Idle /\ GeoIdle /\ FCIdle /\ WLIdle
    /\ MTIdle /\ CPIdle /\ RPIdle
NextRU == RURead /\ UNCHANGED <<th, dm, g4, km, pl, st, mn, tn, ta, g5, ge, fc, wl, mt, cp, rp>>
SpecRU == InitRU /\ [][NextRU]_vars

InitStorage ==
    ThIdle /\ DMIdle /\ G4Idle /\ KMIdle /\ PLIdle /\ RUIdle /\ STInit
    /\ MNIdle /\ TNIdle /\ TAIdle /\ G5Idle /\ GeoIdle /\ FCIdle /\ WLIdle
    /\ MTIdle /\ CPIdle /\ RPIdle
\* Sessions one after another, each a new DiskStorage of the one process
\* that runs at a time: an instance is constructed only when no other has
\* the file open.
NextStorage ==
    /\ \E i \in {1} :
          \/ Alone(i) /\ STSetOutput(i)
          \/ Alone(i) /\ STWriteStringLazy(i)
          \/ STHasData(i) \/ STWriteHeader(i) \/ STWriteString(i)
          \/ STFlush(i) \/ STClose(i) \/ STExit(i)
    /\ UNCHANGED <<th, dm, g4, km, pl, ru, mn, tn, ta, g5, ge, fc, wl, mt, cp, rp>>
SpecStorage == InitStorage /\ [][NextStorage]_vars

\* Instances of separate processes, their steps interleaved; each process
\* constructs its DiskStorage once.
NextStorageRace ==
    /\ \E i \in STInst :
          \/ st.inst[i].pc = "none" /\ STSetOutput(i)
          \/ STHasData(i) \/ STWriteHeader(i)
          \/ STWriteString(i) \/ STFlush(i) \/ STClose(i) \/ STExit(i)
    /\ UNCHANGED <<th, dm, g4, km, pl, ru, mn, tn, ta, g5, ge, fc, wl, mt, cp, rp>>
SpecStorageRace == InitStorage /\ [][NextStorageRace]_vars

InitMain ==
    ThIdle /\ DMIdle /\ G4Idle /\ KMIdle /\ PLIdle /\ RUIdle /\ STIdle
    /\ TNIdle /\ TAIdle /\ G5Idle /\ GeoIdle /\ FCIdle /\ WLIdle /\ MTIdle
    /\ CPIdle /\ RPIdle
    /\ MNInit
\* What the process does by itself: every step but the arrival of a
\* datagram, the failure of a socket and the arrival of a signal.
MNProgress ==
    \/ \E p \in MNPorts : MNTake(p)
    \/ MNRawDone \/ MNScan \/ MNGeoDone \/ MNFlushDone
    \/ MNRangeEnd \/ MNWaitDone
    \/ \E c \in MNClosers : MNLock(c) \/ MNCloseDone(c) \/ MNExit(c)
NextMain ==
    /\ \/ \E p \in MNPorts : MNRead(p) \/ MNReadFail(p)
       \/ MNSignal
       \/ MNProgress
    /\ UNCHANGED <<th, dm, g4, km, pl, ru, st, tn, ta, g5, ge, fc, wl, mt, cp, rp>>
SpecMain == InitMain /\ [][NextMain]_vars
\* The scheduler runs every goroutine that can take a step.
SpecMainLive ==
    SpecMain
    /\ WF_vars(MNProgress /\ UNCHANGED <<th, dm, g4, km, pl, ru, st, tn, ta, g5, ge, fc, wl, mt, cp, rp>>)

InitTN ==
    ThIdle /\ DMIdle /\ G4Idle /\ KMIdle /\ PLIdle /\ RUIdle /\ STIdle
    /\ MNIdle /\ TNInit /\ TAIdle /\ G5Idle /\ GeoIdle /\ FCIdle /\ WLIdle
    /\ MTIdle /\ CPIdle /\ RPIdle
NextTN ==
    \/ TNStanzaLine /\ UNCHANGED <<th, dm, g4, km, pl, ru, st, mn, ta, g5, ge, fc, wl, mt, cp, rp>>
    \/ TNOtherLine /\ UNCHANGED <<th, dm, g4, km, pl, ru, st, mn, ta, g5, ge, fc, wl, mt, cp, rp>>
    \/ TNUnterminatedLine /\ UNCHANGED <<th, dm, g4, km, pl, ru, st, mn, ta, g5, ge, fc, wl, mt, cp, rp>>
SpecTN == InitTN /\ [][NextTN]_vars

InitTARA ==
    ThIdle /\ DMIdle /\ G4Idle /\ KMIdle /\ PLIdle /\ RUIdle /\ STIdle
    /\ MNIdle /\ TNIdle /\ TAInit /\ G5Idle /\ GeoIdle /\ FCIdle /\ WLIdle
    /\ MTIdle /\ CPIdle /\ RPIdle
NextTARA ==
    \/ TAGPRMCLine /\ UNCHANGED <<th, dm, g4, km, pl, ru, st, mn, tn, g5, ge, fc, wl, mt, cp, rp>>
    \/ TAOtherLine /\ UNCHANGED <<th, dm, g4, km, pl, ru, st, mn, tn, g5, ge, fc, wl, mt, cp, rp>>
    \/ TAUnterminatedLine /\ UNCHANGED <<th, dm, g4, km, pl, ru, st, mn, tn, g5, ge, fc, wl, mt, cp, rp>>
SpecTARA == InitTARA /\ [][NextTARA]_vars

InitG5 ==
    ThIdle /\ DMIdle /\ G4Idle /\ KMIdle /\ PLIdle /\ RUIdle /\ STIdle
    /\ MNIdle /\ TNIdle /\ TAIdle /\ G5Init /\ GeoIdle /\ FCIdle /\ WLIdle
    /\ MTIdle /\ CPIdle /\ RPIdle
NextG5 ==
    \/ G5StanzaLine /\ UNCHANGED <<th, dm, g4, km, pl, ru, st, mn, tn, ta, ge, fc, wl, mt, cp, rp>>
    \/ G5OtherLine /\ UNCHANGED <<th, dm, g4, km, pl, ru, st, mn, tn, ta, ge, fc, wl, mt, cp, rp>>
SpecG5 == InitG5 /\ [][NextG5]_vars

\* The four parsers that skip unterminated lines, one of them at work:
\* Gradients4 and Kilo Moana with no throttling interval, TARA and TN427 /
\* TN448 with any of theirs.
\* Flush and Close of a DiskStorage with several feeds.
InitFlushClose ==
    /\ FCInit
    /\ ThIdle /\ DMIdle /\ G4Idle /\ KMIdle /\ PLIdle /\ RUIdle /\ STIdle
    /\ MNIdle /\ TNIdle /\ TAIdle /\ G5Idle /\ GeoIdle /\ WLIdle /\ MTIdle
    /\ CPIdle /\ RPIdle

NextFlushClose ==
    /\ FCFlush \/ FCClose
    /\ UNCHANGED <<th, dm, g4, km, pl, ru, st, mn, tn, ta, g5, ge, wl, mt, cp, rp>>

SpecFlushClose == InitFlushClose /\ [][NextFlushClose]_vars

\* Whitelist alone.
InitWhitelist ==
    /\ WLIdle
    /\ ThIdle /\ DMIdle /\ G4Idle /\ KMIdle /\ PLIdle /\ RUIdle /\ STIdle
    /\ MNIdle /\ TNIdle /\ TAIdle /\ G5Idle /\ GeoIdle /\ FCIdle /\ MTIdle
    /\ CPIdle /\ RPIdle

NextWhitelist ==
    /\ WLWhitelist \/ WLAgain
    /\ UNCHANGED <<th, dm, g4, km, pl, ru, st, mn, tn, ta, g5, ge, fc, mt, cp, rp>>

SpecWhitelist == InitWhitelist /\ [][NextWhitelist]_vars

\* Live parsing and replay.
InitReplay ==
    /\ RPInit
    /\ ThIdle /\ DMIdle /\ G4Idle /\ KMIdle /\ PLIdle /\ RUIdle /\ STIdle
    /\ MNIdle /\ TNIdle /\ TAIdle /\ G5Idle /\ GeoIdle /\ FCIdle /\ WLIdle
    /\ MTIdle /\ CPIdle

NextReplay ==
    /\ RPDatagram \/ RPReplay \/ RPScan
    /\ UNCHANGED <<th, dm, g4, km, pl, ru, st, mn, tn, ta, g5, ge, fc, wl, mt, cp>>

SpecReplay == InitReplay /\ [][NextReplay]_vars

\* The mirror goroutine and the closers.
InitCopy ==
    /\ CPIdle
    /\ ThIdle /\ DMIdle /\ G4Idle /\ KMIdle /\ PLIdle /\ RUIdle /\ STIdle
    /\ MNIdle /\ TNIdle /\ TAIdle /\ G5Idle /\ GeoIdle /\ FCIdle /\ WLIdle
    /\ MTIdle /\ RPIdle

NextCopy ==
    /\ \/ CPTick \/ CPPassBegins \/ CPCopyFeed \/ CPPassEnds
       \/ CPSignal \/ CPMainDone
       \/ \E c \in CPClosers : CPLock(c) \/ CPCloseDone(c) \/ CPExit(c)
    /\ UNCHANGED <<th, dm, g4, km, pl, ru, st, mn, tn, ta, g5, ge, fc, wl, mt, rp>>

SpecCopy == InitCopy /\ [][NextCopy]_vars

\* The multi-feed Throttle alone.
InitFeedThrottle ==
    /\ MTInit
    /\ ThIdle /\ DMIdle /\ G4Idle /\ KMIdle /\ PLIdle /\ RUIdle /\ STIdle
    /\ MNIdle /\ TNIdle /\ TAIdle /\ G5Idle /\ GeoIdle /\ FCIdle /\ WLIdle
    /\ CPIdle /\ RPIdle

NextFeedThrottle ==
    /\ MTLimit \/ MTRecent
    /\ UNCHANGED <<th, dm, g4, km, pl, ru, st, mn, tn, ta, g5, ge, fc, wl, cp, rp>>

SpecFeedThrottle == InitFeedThrottle /\ [][NextFeedThrottle]_vars

\* Package geo alone.
InitGeo ==
    /\ GeoIdle
    /\ ThIdle /\ DMIdle /\ G4Idle /\ KMIdle /\ PLIdle /\ RUIdle /\ STIdle
    /\ MNIdle /\ TNIdle /\ TAIdle /\ G5Idle /\ FCIdle /\ WLIdle /\ MTIdle
    /\ CPIdle /\ RPIdle

NextGeo ==
    /\ GeoLat \/ GeoLon
    /\ UNCHANGED <<th, dm, g4, km, pl, ru, st, mn, tn, ta, g5, fc, wl, mt, cp, rp>>

SpecGeo == InitGeo /\ [][NextGeo]_vars

InitParsers ==
    /\ G4Idle /\ KMIdle
    /\ \/ TAInit /\ TNIdle
       \/ TAIdle /\ TNInit
    /\ ThIdle /\ DMIdle /\ PLIdle /\ RUIdle /\ STIdle /\ MNIdle /\ G5Idle
    /\ GeoIdle /\ FCIdle /\ WLIdle /\ MTIdle /\ CPIdle /\ RPIdle

NextParsers ==
    \/ /\ KMIdle /\ TAIdle /\ TNIdle
       /\ G4Delimiter \/ G4Line \/ G4Unterminated
       /\ UNCHANGED <<th, dm, km, pl, ru, st, mn, tn, ta, g5, ge, fc, wl, mt, cp, rp>>
    \/ /\ G4Idle /\ TAIdle /\ TNIdle
       /\ KMBar1 \/ KMLine \/ KMUnterminated
       /\ UNCHANGED <<th, dm, g4, pl, ru, st, mn, tn, ta, g5, ge, fc, wl, mt, cp, rp>>
    \/ /\ G4Idle /\ KMIdle /\ TNIdle
       /\ TAGPRMCLine \/ TAOtherLine \/ TAUnterminatedLine
       /\ UNCHANGED <<th, dm, g4, km, pl, ru, st, mn, tn, g5, ge, fc, wl, mt, cp, rp>>
    \/ /\ G4Idle /\ KMIdle /\ TAIdle
       /\ TNStanzaLine \/ TNOtherLine \/ TNUnterminatedLine
       /\ UNCHANGED <<th, dm, g4, km, pl, ru, st, mn, ta, g5, ge, fc, wl, mt, cp, rp>>
SpecParsers == InitParsers /\ [][NextParsers]_vars

(***************************************************************************)
(* C1: for every line it scans, ParseLines appends exactly one row, the    *)
(* RFC3339Nano time and the values joined by TAB and ended by LF, to the   *)
(* geo feed if the Data returned for the line has a non-zero time, some    *)
(* values and is not throttled, and appends nothing to geo otherwise.  A   *)
(* row the storer refuses is reported as a write error and not appended.   *)
(***************************************************************************)
C1_OneRowIffOK ==
    pl.op = "line" =>
        LET d == pl.d
            emittable == d.Time # 0 /\ d.Values # <<>> /\ ~d.Throttled
            row == Join(<<FormatRFC3339(d.Time)>> \o d.Values, <<TAB>>)
                       \o <<LF>>
        IN  IF emittable /\ pl.err # "error writing parsed data"
            THEN pl.geo = Append(pl.before, row)
            ELSE pl.geo = pl.before

\* Three lines were scanned: two records became rows, in order, and the
\* throttled third one left the feed alone.
C1_Witness ==
    /\ pl.op = "line" /\ pl.d.Throttled /\ pl.d.Time # 0
    /\ pl.geo =
         << <<"2", "0", "0", "0", "-", "0", "1", "-", "0", "1", "T", "0", "0",
              ":", "0", "0", ":", "0", "1", "Z", TAB, "1", ".", "5", TAB,
              "N", "A", LF>>,
            <<"2", "0", "0", "0", "-", "0", "1", "-", "0", "1", "T", "0", "0",
              ":", "0", "0", ":", "0", "2", "Z", TAB, "1", ".", "5", LF>> >>

(***************************************************************************)
(* C2: Limit on a record with non-zero time.  With recent unset the record *)
(* passes and recent becomes its time.  With recent set, the record is     *)
(* throttled and recent unchanged iff 0 <= record.time - recent <          *)
(* interval; otherwise it passes and recent becomes its time.              *)
(***************************************************************************)
C2_LimitContract ==
    (th.called /\ th.d.Time # 0) =>
        IF th.before = 0
        THEN ~th.d.Throttled /\ th.t.recent = th.d.Time
        ELSE IF 0 <= th.d.Time - th.before
                /\ th.d.Time - th.before < th.t.interval
             THEN th.d.Throttled /\ th.t.recent = th.before
             ELSE ~th.d.Throttled /\ th.t.recent = th.d.Time

\* A record inside the interval was throttled and left recent alone.
C2_Witness ==
    /\ th.called /\ th.before # 0 /\ th.d.Time > th.before
    /\ th.d.Throttled /\ th.t.recent = th.before

(***************************************************************************)
(* C3: once recent holds a far-future instant T, a record earlier than T   *)
(* is not throttled and resets recent to its own time, however far in the  *)
(* future T is.                                                            *)
(***************************************************************************)
C3_BackwardResets ==
    (th.called /\ th.d.Time # 0 /\ th.before # 0 /\ th.d.Time < th.before)
        => (~th.d.Throttled /\ th.t.recent = th.d.Time)

\* recent was further ahead than any Duration can express, and was reset.
C3_Witness ==
    /\ th.called /\ th.d.Time # 0 /\ th.t.interval > 0
    /\ th.before - th.d.Time > MaxDuration + 1
    /\ th.t.recent = th.d.Time

(***************************************************************************)
(* C4: GetData returns a populated record iff time is non-zero and every   *)
(* non-time header has a value; then the values are in schema order, the   *)
(* throttle has been applied, and the manager's time, values and errors    *)
(* are empty afterwards, also when the record was throttled.               *)
(***************************************************************************)
DMComplete(m) ==
    m.t # 0 /\ "lat" \in DOMAIN m.values /\ "lon" \in DOMAIN m.values

DMShouldThrottle(m) ==
    /\ m.throttle.recent # 0
    /\ 0 <= m.t - m.throttle.recent
    /\ m.t - m.throttle.recent < m.throttle.interval

C4_GetDataContract ==
    dm.op = "GetData" =>
        /\ (dm.d # EmptyData) <=> DMComplete(dm.before)
        /\ DMComplete(dm.before) =>
            /\ dm.d.Time = dm.before.t
            /\ dm.d.Values = <<dm.before.values["lat"],
                               dm.before.values["lon"]>>
            /\ dm.d.Errors = dm.before.errors
            /\ dm.d.Throttled <=> DMShouldThrottle(dm.before)
            /\ dm.m.throttle.recent =
                 IF dm.d.Throttled THEN dm.before.throttle.recent
                 ELSE dm.before.t
            /\ dm.m.t = 0 /\ dm.m.values = <<>> /\ dm.m.errors = <<>>

\* A complete stanza with an error was returned throttled, and was reset.
C4_Witness ==
    /\ dm.op = "GetData" /\ dm.d.Throttled /\ Len(dm.d.Errors) > 0
    /\ dm.d.Values[1] # dm.d.Values[2]
    /\ dm.m.values = <<>>

(***************************************************************************)
(* C5: after Gradients4 has processed a $SEAFLOW line its stanza holds no  *)
(* values and no errors from the lines before it, whether or not a record  *)
(* was emitted; the line counter is 0 and the time is the clock value read *)
(* at that delimiter.                                                      *)
(***************************************************************************)
C5_DelimiterResets ==
    g4.op = "delimiter" =>
        /\ g4.p.dm.values = <<>>
        /\ g4.p.dm.errors = <<>>
        /\ g4.p.i = 0
        /\ g4.p.dm.t = g4.now

(***************************************************************************)
(* C6: a stanza whose first line fails to convert as latitude, or whose    *)
(* second line fails to convert as longitude, or that has fewer than five  *)
(* lines, produces no record at the $SEAFLOW that closes it.               *)
(***************************************************************************)
C6_BadStanzaDropped ==
    (g4.op = "delimiter" /\ g4.d # EmptyData) =>
        (g4.closed.latOK /\ g4.closed.lonOK /\ g4.closed.n >= 5)

(***************************************************************************)
(* C7: KiloMoana returns a populated record only on a bar1 line, and only  *)
(* if a valid $GPGGA line set lat and lon since the previous bar1; every   *)
(* other column for which the stanza had no valid line is NA, and no       *)
(* column carries a value from a line before the previous bar1.            *)
(***************************************************************************)
C7_Bar1EmitsOwnStanza ==
    km.d # EmptyData =>
        /\ km.op = "bar1"
        /\ "lat" \in DOMAIN km.closed /\ "lon" \in DOMAIN km.closed
        /\ \A i \in 1 .. Len(km.d.Values) :
              km.d.Values[i] =
                  IF KMHeaders[i + 1] \in DOMAIN km.closed
                  THEN km.closed[KMHeaders[i + 1]]
                  ELSE NA

(***************************************************************************)
(* C8: reading the envelopes of any payloads through the RAWUDP reader,    *)
(* into slices of any non-zero length, yields the payloads concatenated in *)
(* order and then EOF: every Read returns bytes or EOF, what was delivered *)
(* is a prefix of the payloads, and at EOF all of it has been delivered.   *)
(***************************************************************************)
C8_PayloadsThenEOF ==
    (ru.op = "Read" /\ ru.tail = <<>>) =>
        /\ ru.err \in {"nil", "EOF"}
        /\ ru.err = "nil" => ru.n > 0
        /\ Len(ru.out) <= Len(Concat(ru.payloads))
        /\ ru.out = SubSeq(Concat(ru.payloads), 1, Len(ru.out))
        /\ ru.err = "EOF" => ru.out = Concat(ru.payloads)

(***************************************************************************)
(* C9: over storage sessions that follow one another on the same file      *)
(* (construct with the same header, write, flush, close, construct again)  *)
(* the file holds the header paragraph at most once, and only at offset 0. *)
(***************************************************************************)
C9_HeaderOnceAtStart ==
    LET header == HeaderText(st.header)
    IN  header # <<>> =>
            \A i \in 1 .. Len(st.disk) - Len(header) + 1 :
                SubSeq(st.disk, i, i + Len(header) - 1) = header => i = 1

\* The third session has closed; the file is the header, written by the
\* first, and the records of the later ones.
C9_Witness ==
    /\ st.op = "Close" /\ st.sessions = 3 /\ st.header = <<"h", LF, "t">>
    /\ st.disk = <<"h", LF, "t", LF, "r", LF, "r", LF>>
    /\ \A i \in STInst : st.inst[i].pc \in {"none", "closed"}

(***************************************************************************)
(* C10: when two storage instances are constructed concurrently for the    *)
(* same, initially empty file, under any interleaving of their size        *)
(* checks, buffered header writes and flushes, the file holds the header   *)
(* at most once.                                                           *)
(***************************************************************************)
C10_RaceHeaderOnce ==
    LET header == HeaderText(st.header)
    IN  header # <<>> =>
            Cardinality({i \in 1 .. Len(st.disk) - Len(header) + 1 :
                SubSeq(st.disk, i, i + Len(header) - 1) = header}) <= 1
(***************************************************************************)
(* C11: after a Close that succeeded, the feed file is what it held when   *)
(* the storage was constructed, then the header with a final LF (only if   *)
(* the file was empty then, the feed was declared and its header is not    *)
(* empty), then every string passed to WriteString in call order.  What    *)
(* the file held at construction stays at its start throughout the         *)
(* session, and a feed opened by its first WriteString gets no header.     *)
(***************************************************************************)
C11_Header ==
    IF st.header = <<>> \/ st.header[Len(st.header)] = LF
    THEN st.header ELSE Append(st.header, LF)

C11_Expected(x) ==
    x.base \o (IF x.base = <<>> /\ ~x.lazy THEN C11_Header ELSE <<>>)
           \o x.written

C20_ErrorsOnlyFromIO ==
    pl.returned =>
        \/ pl.err \in {"error writing parsed data", "error flushing data"}
        \/ pl.err = "error reading lines" /\ pl.scanner.err = "read error"
        \/ /\ pl.err = "nil"
           /\ pl.scanner.buf = <<>> /\ pl.scanner.r.data = <<>>
(***************************************************************************)
(* C12: in UDP mode, once a storage write or flush has failed while the    *)
(* consumer parsed a datagram, the process closes the storer and exits     *)
(* with code 1, with no signal needed for that.                            *)
(***************************************************************************)
C12_WriteFailureExits ==
    (mn.mode = "udp" /\ mn.ioFailed)
        ~> (mn.signalled \/ (mn.closed /\ mn.exited = 1))

(***************************************************************************)
(* C13: a process in UDP mode in which a socket read failed exits with     *)
(* code 1, and a process exits with code 0 only in stdin mode, after       *)
(* ParseLines returned no error and Close succeeded.                       *)
(***************************************************************************)
C13_ExitCodes ==
    /\ (mn.mode = "udp" /\ mn.readFailed /\ mn.exited # -1) => mn.exited = 1
    /\ mn.exited = 0 =>
           mn.mode = "stdin" /\ ~mn.parseFailed /\ ~mn.closeFailed

(***************************************************************************)
(* C14: the consumer is never inside a WriteString or Flush of the storer  *)
(* while main or the signal handler is inside Close, nor after Close.      *)
(***************************************************************************)
C14_CloseSerialized ==
    (mn.mode = "udp" /\ mn.co.pc \in MNCalls) =>
        ~mn.closed /\ \A c \in MNClosers : mn.pc[c] # "closing"

(***************************************************************************)
(* C15: the rows written to the geo feed are in the order in which the     *)
(* consumer took their datagrams and, within a datagram, in line order;    *)
(* the envelopes written to the raw feed are in datagram order; and with   *)
(* -raw the envelope of a datagram is written before any geo row of that   *)
(* datagram.  The times of the records play no part.                       *)
(***************************************************************************)
C15_Feed(feed) == SelectSeq(mn.out, LAMBDA e : e.feed = feed)

C15_InOrder(rows) ==
    \A i, j \in 1 .. Len(rows) :
        i < j => \/ rows[i].dg < rows[j].dg
                 \/ rows[i].dg = rows[j].dg /\ rows[i].ln < rows[j].ln

C16_Accepted ==
    /\ DCZDA[tn.in.z].ok
    /\ DCGGA[tn.in.g].ok
    /\ TNPAR[tn.in.p].kind \in {"empty", "good"}

C16_Populated == tn.d.Time # 0 /\ Len(tn.d.Values) > 0

C17_Valid ==
    /\ ta.op = "gprmc"
    /\ TATimes[ta.in.tm].ok /\ TADates[ta.in.dt].ok
    /\ TALats[ta.in.la].ok /\ TALons[ta.in.lo].ok
    /\ TATails[ta.in.tail].ok

C17_Populated == ta.d.Time # 0 /\ Len(ta.d.Values) > 0

C18_OtherwiseValid ==
    g5.op = "stanza" /\ DCZDA[g5.in.z].ok /\ DCGGA[g5.in.g].ok

C18_EmptyParGivesNA ==
    /\ C18_OtherwiseValid /\ G5PAR[g5.in.p].kind = "empty" =>
        /\ ~g5.panicked
        /\ g5.d.Time # 0
        /\ Len(g5.d.Values) = 6 /\ g5.d.Values[6] = NA
    /\ C18_OtherwiseValid /\ G5PAR[g5.in.p].kind = "bad" =>
        ~g5.panicked /\ g5.d.Time = 0 /\ g5.d.Values = <<>>

\* What the code does with a PAR group of fewer than two fields: it
\* panics.  A PAR value without three decimals is rejected.
C18_EmptyParPanics ==
    C18_OtherwiseValid =>
        /\ G5PAR[g5.in.p].kind \in {"empty", "short"} <=> g5.panicked
        /\ G5PAR[g5.in.p].kind = "bad" =>
            g5.d.Time = 0 /\ g5.d.Values = <<>>

(***************************************************************************)
(* C19: ParseLine of Gradients4, Kilo Moana, TARA and TN427 / TN448 on a   *)
(* line that is empty or does not end in LF returns the empty Data (no     *)
(* time, no values, no errors) and leaves the parser as it was: values,    *)
(* time, errors, line counter and throttle.                                *)
(***************************************************************************)
C19_UnterminatedSkipped ==
    [][/\ g4'.op = "unterminated" => g4'.p = g4.p /\ g4'.d = EmptyData
       /\ KMUnterminated => km'.p = km.p /\ km'.d = EmptyData
       /\ ta'.op = "unterminated" => ta'.p = ta.p /\ ta'.d = EmptyData
       /\ tn'.op = "unterminated" => tn'.p = tn.p /\ tn'.d = EmptyData]_vars

\* An unterminated line given to a Gradients4 parser that is two lines
\* into a stanza and holds a value and an error.
C19_Witness ==
    /\ g4.op = "unterminated" /\ g4.p.i = 2
    /\ g4.p.dm.values # <<>> /\ g4.p.dm.errors # <<>>
    /\ g4.d = EmptyData


(***************************************************************************)
(* C21: when the first two lines of a Gradients4 stanza convert to         *)
(* latitude and longitude and lines three to five are present, the closing *)
(* $SEAFLOW emits a record whose temp, conductivity and salinity are each  *)
(* the line's trimmed text if it parses as a float and NA otherwise, with  *)
(* one error attached per bad float.                                       *)
(***************************************************************************)
G4FloatOrNA(text) == IF ParseFloat(text).ok THEN text ELSE NA

G4BadFloats(floats) ==
    Cardinality({i \in 1 .. Len(floats) : ~ParseFloat(floats[i]).ok})

C21_Closed ==
    /\ g4.op = "delimiter" /\ g4.closed.t # 0
    /\ g4.closed.latOK /\ g4.closed.lonOK /\ g4.closed.n >= 5

C21_FloatsOrNA ==
    C21_Closed =>
        /\ g4.d # EmptyData
        /\ \A i \in 1 .. 3 :
              g4.d.Values[2 + i] = G4FloatOrNA(g4.closed.floats[i])
        /\ Len(g4.d.Errors) = G4BadFloats(g4.closed.floats)

\* What does hold: the three values are as stated and every bad float has
\* left an error; errors of earlier stanzas that produced no record may come
\* on top.
C21_ValuesAsStated ==
    C21_Closed =>
        /\ g4.d # EmptyData
        /\ \A i \in 1 .. 3 :
              g4.d.Values[2 + i] = G4FloatOrNA(g4.closed.floats[i])
        /\ Len(g4.d.Errors) >= G4BadFloats(g4.closed.floats)

(***************************************************************************)
(* C22: every record Gradients4 emits carries the clock value read at the  *)
(* $SEAFLOW that opened its stanza, not the one read at the $SEAFLOW that  *)
(* closed it, whether or not earlier stanzas produced records.             *)
(***************************************************************************)
C22_StampedAtOpening ==
    (g4.op = "delimiter" /\ g4.d # EmptyData) =>
        /\ g4.closed.t # 0
        /\ g4.d.Time = g4.closed.t

\* A record stamped with the first clock value, emitted by a delimiter at
\* which the clock had moved on.
C22_Witness ==
    /\ g4.op = "delimiter" /\ g4.d # EmptyData
    /\ g4.d.Time = 1 /\ g4.now = 2


(***************************************************************************)
(* C23: the time of every record KiloMoana emits is the instant computed   *)
(* from the first six tokens of the bar1 line that opened the record's     *)
(* stanza; it is never the time of an earlier or a later bar1.             *)
(***************************************************************************)
C23_TimeOfOpeningBar1 ==
    km.d # EmptyData =>
        /\ km.op = "bar1"
        /\ km.closedAt # 0
        /\ km.d.Time = km.closedAt


(***************************************************************************)
(* C24: when GetData finds the stanza incomplete (the time unset or a      *)
(* column of the schema missing) it returns the empty record and leaves    *)
(* the manager's time, values, errors and throttle exactly as they were.   *)
(***************************************************************************)
C24_IncompleteLeftAlone ==
    (dm.op = "GetData" /\ ~DMComplete(dm.before)) =>
        /\ dm.d = EmptyData
        /\ dm.m.t = dm.before.t
        /\ dm.m.values = dm.before.values
        /\ dm.m.errors = dm.before.errors
        /\ dm.m.throttle = dm.before.throttle

\* GetData on a manager that had a time, one of the two values, an error
\* and a throttle that had let a record pass.
C24_Witness ==
    /\ dm.op = "GetData" /\ dm.d = EmptyData
    /\ dm.m.t # 0 /\ DOMAIN dm.m.values = {"lat"}
    /\ Len(dm.m.errors) > 0
    /\ dm.m.throttle.recent # 0


(***************************************************************************)
(* C28: a throttle constructed with a negative interval has interval 0,    *)
(* and with interval 0 no record is ever marked throttled, whether its     *)
(* time is later than, equal to or earlier than the one before, while      *)
(* recent becomes the time of each record that has one.                    *)
(***************************************************************************)
C28_NoThrottling ==
    /\ th.given < 0 => th.t.interval = 0
    /\ (th.given <= 0 /\ th.called) =>
            /\ ~th.d.Throttled
            /\ th.d.Time # 0 => th.t.recent = th.d.Time

\* A throttle constructed with a negative interval was given a record with
\* the time of the record before it.
C28_Witness ==
    /\ th.given < 0 /\ th.called
    /\ th.before # 0 /\ th.d.Time = th.before
    /\ ~th.d.Throttled


(***************************************************************************)
(* C25: if the input ends before all the bytes of an envelope (header      *)
(* line, LF, payload, LF) are available, the RAWUDP reader returns the     *)
(* error "incomplete RAWUDP payload" instead of EOF, and delivers none of  *)
(* that envelope's bytes.                                                  *)
(***************************************************************************)
RUFits == \A i \in 1 .. Len(ru.payloads) : ru.payloads[i] # LongPayload

RUDeliveredWhole ==
    /\ Len(ru.out) <= Len(Concat(ru.payloads))
    /\ ru.out = SubSeq(Concat(ru.payloads), 1, Len(ru.out))

C25_CutEnvelopeFails ==
    (ru.op = "Read" /\ RUFits /\ ru.tail \in RUCutHeader \cup RUCutPayload) =>
        /\ ru.err = "EOF" => ru.failed = "incomplete RAWUDP payload"
        /\ RUDeliveredWhole

\* What does hold: the same for an envelope cut after its header line.
C25_CutPayloadFails ==
    (ru.op = "Read" /\ RUFits /\ ru.tail \in RUCutPayload) =>
        /\ ru.err = "EOF" => ru.failed = "incomplete RAWUDP payload"
        /\ RUDeliveredWhole

\* An envelope cut before the LF of its header line ends the stream with
\* EOF and no error, its bytes dropped.
C25_CutHeaderIsEOF ==
    (ru.op = "Read" /\ RUFits /\ ru.tail \in RUCutHeader) =>
        /\ ru.failed = "nil"
        /\ RUDeliveredWhole

(***************************************************************************)
(* C26: RAWUDP unwrap returns a format error, without delivering a payload *)
(* of the damaged envelope, when the stream does not begin with the start  *)
(* text, when the header line does not split into exactly three parts, and *)
(* when the third part is not a non-negative integer, negative lengths     *)
(* included.                                                               *)
(***************************************************************************)
RUFormatErrors ==
    {"bad RAWUDP start", "bad RAWUDP header", "bad RAWUDP length"}

C26_FormatError ==
    (ru.op = "Read" /\ RUFits
        /\ ru.tail \in RUBadStart \cup RUBadHeader \cup RUBadLength
                        \cup RUNegativeLength) =>
        /\ ru.err \in {"nil", "EOF"} \cup RUFormatErrors
        /\ ru.err = "EOF" => ru.failed \in RUFormatErrors
        /\ RUDeliveredWhole

\* What does hold: the same without the negative lengths, each damage with
\* its own error.
C26_FormatErrorUnsigned ==
    (ru.op = "Read" /\ RUFits) =>
        /\ ru.tail \in RUBadStart \cup RUBadHeader \cup RUBadLength =>
              /\ ru.err \in {"nil", "EOF"} \cup RUFormatErrors
              /\ ru.err = "EOF" => ru.failed \in RUFormatErrors
              /\ RUDeliveredWhole
        /\ (ru.tail \in RUBadStart /\ ru.failed # "nil") =>
              ru.failed = "bad RAWUDP start"
        /\ (ru.tail \in RUBadHeader /\ ru.failed # "nil") =>
              ru.failed = "bad RAWUDP header"
        /\ (ru.tail \in RUBadLength /\ ru.failed # "nil") =>
              ru.failed = "bad RAWUDP length"

\* A negative length makes the scanner's split function panic.
C26_NegativeLengthPanics ==
    (ru.op = "Read" /\ RUFits /\ ru.tail \in RUNegativeLength) =>
        /\ ru.err \in {"nil", "EOF", "panic"}
        /\ ru.err = "EOF" => ru.failed = "panic"


(***************************************************************************)
(* C30: the line scanner splits any byte stream into tokens whose          *)
(* concatenation is the input with only the CRs that immediately precede   *)
(* an LF removed: every token except possibly the last ends in LF and has  *)
(* no other LF, and an unterminated tail is emitted as it is.              *)
(***************************************************************************)
RECURSIVE StripCRLF(_)
StripCRLF(s) ==
    IF s = <<>> THEN <<>>
    ELSE IF Len(s) >= 2 /\ s[1] = CR /\ s[2] = LF THEN StripCRLF(Tail(s))
    ELSE <<s[1]>> \o StripCRLF(Tail(s))

\* The tokens are lines: none is empty, LF occurs only as the last
\* character, and only the last token of a scan that has ended may lack it.
PLTokensAreLines ==
    \A k \in 1 .. Len(pl.tokens) :
        LET tok == pl.tokens[k]
        IN  /\ tok # <<>>
            /\ \A j \in 1 .. Len(tok) - 1 : tok[j] # LF
            /\ tok[Len(tok)] # LF =>
                  /\ k = Len(pl.tokens)
                  /\ pl.scanner.r.data = <<>> /\ pl.scanner.buf = <<>>

\* The tokens so far are the beginning of the input without its CRs before
\* LFs.
PLTokensFollowInput ==
    LET text == Concat(pl.tokens)
        whole == StripCRLF(pl.input)
    IN  Len(text) <= Len(whole) /\ text = SubSeq(whole, 1, Len(text))

C30_TokensAreTheInput ==
    /\ PLTokensAreLines
    /\ PLTokensFollowInput
    /\ pl.op = "return" => Concat(pl.tokens) = StripCRLF(pl.input)

\* What does hold: the same for every scan that did not end on a line
\* longer than the scanner's buffer.
C30_TokensUnlessTooLong ==
    /\ PLTokensAreLines
    /\ PLTokensFollowInput
    /\ (pl.op = "return" /\ pl.scanner.err # "ErrTooLong") =>
            Concat(pl.tokens) = StripCRLF(pl.input)

\* The scan of CR CR LF has ended: one token, CR LF.
C30_Reached ==
    /\ pl.op = "return" /\ pl.input = <<CR, CR, LF>>
    /\ pl.tokens = << <<CR, LF>> >>


(***************************************************************************)
(* C29: whenever GGALat2DD succeeds its result is within [-90, 90], and    *)
(* whenever GGALon2DD succeeds its result is within [-180, 180], for       *)
(* every degrees and minutes the functions accept.                         *)
(***************************************************************************)
\* The decimal degrees returned, in units of 0.0001 degree, sign dropped.
GeoMagnitude ==
    LET f == ParseFloat(ge.dd)
        m == IF f.mant < 0 THEN -f.mant ELSE f.mant
    IN  m * Pow10(4 - f.frac)

C29_InRange ==
    /\ (ge.op = "GGALat2DD" /\ ge.ok) => GeoMagnitude <= 900000
    /\ (ge.op = "GGALon2DD" /\ ge.ok) => GeoMagnitude <= 1800000

\* What does hold: the result is at most one degree outside the range, and
\* is inside it whenever the degrees are below the largest.
C29_WithinOneDegree ==
    /\ (ge.op = "GGALat2DD" /\ ge.ok) =>
          /\ GeoMagnitude <= 910000
          /\ SubSeq(ge.c, 1, 2) # <<"9", "0">> => GeoMagnitude <= 900000
    /\ (ge.op = "GGALon2DD" /\ ge.ok) =>
          /\ GeoMagnitude <= 1810000
          /\ SubSeq(ge.c, 1, 3) # <<"1", "8", "0">> => GeoMagnitude <= 1800000


(***************************************************************************)
(* C27: Flush attempts every open buffered writer, and Close attempts a    *)
(* flush of every writer and then a close of every open file, even when    *)
(* some of these calls fail; each returns nil iff every call succeeded,    *)
(* and otherwise the error of the last call that failed.                   *)
(***************************************************************************)
\* Every call in S was made, once, and no other.
FCMadeOnce(S) ==
    /\ {fc.calls[i] : i \in 1 .. Len(fc.calls)} = S
    /\ Len(fc.calls) = Cardinality(S)

\* The position of the last call that failed, 0 when none did.
FCLastFailure ==
    LET at == {i \in 1 .. Len(fc.calls) : fc.calls[i] \in fc.failed}
    IN  IF at = {} THEN 0 ELSE CHOOSE i \in at : \A j \in at : j <= i

C27_AllAttemptedLastError ==
    /\ fc.op = "Flush" => FCMadeOnce({<<"flush", f>> : f \in fc.open})
    /\ fc.op = "Close" =>
          /\ FCMadeOnce(FCCalls(fc.open))
          /\ \A i, j \in 1 .. Len(fc.calls) :
                (fc.calls[i][1] = "flush" /\ fc.calls[j][1] = "close")
                    => i < j
    /\ fc.op \in {"Flush", "Close"} =>
          /\ fc.err = Nil <=> fc.failed = {}
          /\ fc.failed # {} => fc.err = fc.calls[FCLastFailure]

\* A Close of three feeds in which the first flush and the first close
\* failed: all six calls were made and the close's error was returned.
C27_Witness ==
    /\ fc.op = "Close" /\ fc.open = FCFeeds
    /\ Len(fc.calls) = 6
    /\ fc.failed = {fc.calls[1], fc.calls[4]}
    /\ fc.err = fc.calls[4]


(***************************************************************************)
(* C31: Whitelist returns exactly the subsequence of the input bytes that  *)
(* lie in 0x20..0x7E or are TAB, LF or CR, in their order, compacted to    *)
(* the front of the buffer; its length never exceeds the input's, and      *)
(* Whitelist applied to its own output changes nothing.                    *)
(***************************************************************************)
WLAllowed(char) == char \in 32 .. 126 \cup {9, 10, 13}

C31_WhitelistSubsequence ==
    wl.op # "new" =>
        /\ wl.nclean <= wl.n
        /\ Len(wl.out) = Len(wl.b)
        /\ SubSeq(wl.out, 1, wl.nclean)
              = SelectSeq(SubSeq(wl.b, 1, wl.n), WLAllowed)
        /\ wl.op = "again" =>
              /\ wl.nclean = wl.n
              /\ wl.out = wl.b

\* Of 0, DEL and a space only the space is left, at the front.
C31_Witness ==
    /\ wl.op = "Whitelist" /\ wl.b = <<0, 127, 32>> /\ wl.n = 3
    /\ wl.nclean = 1 /\ wl.out[1] = 32


(***************************************************************************)
(* C32: in the multi-feed throttle, Limit on a record of one feed neither  *)
(* depends on nor changes the recent instant of any other feed, a record   *)
(* with an empty feed name changes nothing, and Recent("") returns the     *)
(* latest recent instant of all feeds, the zero instant when there are     *)
(* none.                                                                   *)
(***************************************************************************)
\* The recent instant a map holds for a feed, zero when it has none.
MTRecentOf(recent, feed) ==
    IF feed \in DOMAIN recent THEN recent[feed] ELSE 0

C32_FeedsIndependent ==
    /\ (mt.op = "Limit" /\ mt.feed # "") =>
          LET was == MTRecentOf(mt.before, mt.feed)
              inside == was # 0 /\ 0 <= mt.d.Time - was
                               /\ mt.d.Time - was < mt.t.interval
          IN  /\ \A g \in (DOMAIN mt.before \cup DOMAIN mt.t.recent)
                                \ {mt.feed} :
                    /\ g \in DOMAIN mt.before /\ g \in DOMAIN mt.t.recent
                    /\ mt.t.recent[g] = mt.before[g]
              /\ mt.d.Throttled <=> inside
              /\ MTRecentOf(mt.t.recent, mt.feed) =
                    IF inside THEN was ELSE mt.d.Time
    /\ (mt.op = "Limit" /\ mt.feed = "") =>
          /\ mt.t.recent = mt.before
          /\ ~mt.d.Throttled
    /\ (mt.op = "Recent" /\ mt.feed = "") =>
          /\ \A g \in DOMAIN mt.t.recent : mt.t.recent[g] <= mt.r
          /\ IF DOMAIN mt.t.recent = {} THEN mt.r = 0
             ELSE \E g \in DOMAIN mt.t.recent : mt.t.recent[g] = mt.r
    /\ mt.op = "Recent" => mt.t.recent = mt.before

\* A record of feed2 inside the interval of feed2 was throttled while
\* feed1 held a later instant, which stayed.
C32_Witness ==
    /\ mt.op = "Limit" /\ mt.feed = "feed2" /\ mt.d.Throttled
    /\ DOMAIN mt.before = MTFeeds
    /\ mt.before["feed1"] > mt.d.Time
    /\ mt.t.recent = mt.before


(***************************************************************************)
(* C35: when the wrapped input ends inside a header line (a proper prefix  *)
(* of the start text, or a header line with no LF), the RAWUDP reader      *)
(* returns an error before it returns EOF.                                 *)
(***************************************************************************)
C35_CutHeaderIsError ==
    (ru.op = "Read" /\ RUFits /\ ru.tail \in RUCutHeader
        /\ ru.err = "EOF") => ru.failed # "nil"

(***************************************************************************)
(* C34: when well-formed envelopes are followed by a malformed or          *)
(* truncated one, the RAWUDP reader has delivered every byte of the        *)
(* well-formed payloads to its caller by the time it returns the error.    *)
(***************************************************************************)
\* The damaged envelopes for which Read returns an error.
RUDamaged == RUCutPayload \cup RUBadStart \cup RUBadHeader \cup RUBadLength

RUErrors == RUFormatErrors \cup {"incomplete RAWUDP payload"}

C34_PayloadsBeforeError ==
    (ru.op = "Read" /\ RUFits /\ ru.tail \in RUDamaged
        /\ ru.err \in RUErrors) => ru.out = Concat(ru.payloads)

\* What does hold: the bytes delivered before the error are a prefix of the
\* well-formed payloads, and a caller that reads on after the error gets
\* the rest before EOF.
C34_PayloadsBeforeEOF ==
    (ru.op = "Read" /\ RUFits /\ ru.tail \in RUDamaged) =>
        /\ RUDeliveredWhole
        /\ ru.err = "EOF" => ru.out = Concat(ru.payloads)


(***************************************************************************)
(* C39: with cleaning enabled, every line handed to ParseLine contains     *)
(* only whitelisted bytes and does not end in CR LF.                       *)
(***************************************************************************)
PLEndsInCRLF(line) ==
    /\ Len(line) >= 2
    /\ line[Len(line) - 1] = CR
    /\ line[Len(line)] = LF

PLOnlyWhitelisted(line) ==
    \A i \in 1 .. Len(line) : WLAllowed(ByteValue(line[i]))

C39_CleanLines ==
    (pl.op = "line" /\ ~pl.noCleanFlag) =>
        /\ PLOnlyWhitelisted(pl.line)
        /\ ~PLEndsInCRLF(pl.line)

\* What does hold: a cleaned line has only whitelisted bytes, and it ends
\* in CR LF only if its token, from which dropCR took one CR at most, still
\* had a CR with nothing but removed bytes between it and the final LF.
C39_CleanLinesWhitelisted ==
    (pl.op = "line" /\ ~pl.noCleanFlag) =>
        LET tok == pl.tokens[Len(pl.tokens)]
        IN  /\ PLOnlyWhitelisted(pl.line)
            /\ PLEndsInCRLF(pl.line) =>
                  \E j \in 1 .. Len(tok) - 1 :
                      /\ tok[j] = CR
                      /\ \A k \in j + 1 .. Len(tok) - 1 : tok[k] = NUL

\* The input CR NUL LF was cleaned to the line CR LF.
C39_Reached ==
    /\ pl.op = "line" /\ ~pl.noCleanFlag
    /\ pl.input = <<CR, NUL, LF>> /\ pl.line = <<CR, LF>>


(***************************************************************************)
(* C36: of the records with a time that one throttle leaves un-throttled,  *)
(* each has a time earlier than the un-throttled record before it or at    *)
(* least interval later; recent is always the time of the last such        *)
(* record; a record with zero time changes nothing.                        *)
(***************************************************************************)
C36_Spacing ==
    /\ th.t.recent = th.last
    /\ (th.called /\ th.d.Time # 0 /\ ~th.d.Throttled /\ th.prev # 0) =>
            \/ th.d.Time < th.prev
            \/ th.d.Time - th.prev >= th.t.interval
    /\ (th.called /\ th.d.Time = 0) =>
            /\ ~th.d.Throttled
            /\ th.t.recent = th.before /\ th.last = th.prev

\* A record exactly interval after the last un-throttled one passed.
C36_Witness ==
    /\ th.called /\ th.t.interval > 0 /\ th.prev # 0
    /\ ~th.d.Throttled
    /\ th.d.Time = th.prev + th.t.interval
    /\ th.t.recent = th.d.Time


C37_Buffered ==
    /\ st.op = "WriteString" /\ st.actor = 1
    /\ st.inst[1].written = <<"r", LF>> /\ st.inst[1].base = <<>>
    /\ st.disk = <<>>


(***************************************************************************)
(* C38: a mirror pass and a storer Close never run at the same time: both  *)
(* hold the same mutex, the mutex is released after every pass whatever    *)
(* copy errors occur, and a signal that arrives during a pass closes the   *)
(* storer only after the pass has ended.                                   *)
(***************************************************************************)
C38_PassExcludesClose ==
    /\ ~(cp.pc["copier"] = "pass" /\ \E c \in CPClosers : cp.pc[c] = "closing")
    /\ ~(cp.pc["main"] = "closing" /\ cp.pc["sig"] = "closing")
    /\ cp.pc["copier"] = "pass" <=> cp.mut = "copier"
    /\ \A c \in CPClosers : cp.pc[c] = "closing" <=> cp.mut = c
    /\ cp.pc["copier"] \in {"idle", "lock", "pass"}
    /\ cp.op = "pass ends" => cp.mut = "free" /\ cp.left = {}

\* A signal arrived during a pass in which a copy failed; the pass ended
\* and the handler is closing the storer.
C38_Witness ==
    /\ cp.sigInPass /\ cp.errors > 0
    /\ cp.pc["sig"] = "closing" /\ cp.mut = "sig"
    /\ cp.pc["copier"] = "idle"


(***************************************************************************)
(* C33: for any sequence of datagrams, the lines handed to the parser when *)
(* each datagram is parsed on its own are the lines handed to it when the  *)
(* datagrams are stored as envelopes and replayed through the wrapped      *)
(* reader, also when a datagram does not end in LF.                        *)
(***************************************************************************)
C33_ReplayIsLive == rp.pc = "done" => rp.replay = rp.live

\* What does hold: the same when every datagram is empty or ends in LF; and
\* in every case the replay reads the datagrams' bytes joined together.
RPWholeLines ==
    \A i \in 1 .. Len(rp.datagrams) :
        LET d == rp.datagrams[i]
        IN  d = <<>> \/ d[Len(d)] = LF

C33_ReplayOfWholeLines ==
    rp.pc = "done" =>
        /\ RPWholeLines => rp.replay = rp.live
        /\ rp.replay = ParsedLines(
                NewScanner(StringsNewReader(Concat(rp.datagrams)),
                           "scanLinesWithLF"),
                rp.noCleanFlag)

\* The datagrams "a" and "a LF" were replayed as the one line "aa LF".
C33_Reached ==
    /\ rp.pc = "done"
    /\ rp.datagrams = << <<"a">>, <<"a", LF>> >>
    /\ rp.live = << <<"a">>, <<"a", LF>> >>
    /\ rp.replay = << <<"a", "a", LF>> >>

====
